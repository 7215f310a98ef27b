----------------------------- MODULE SensorProofs -----------------------------
(***************************************************************************)
(* Proofs about the sensor thread: what its loop is woken for in time      *)
(* (SensorWake), what it does at rest (SensorRest), what a scan finds      *)
(* (SensorScan) and when a forced scan interrupts it (SensorHealth).  The  *)
(* parts share no state.                                                   *)
(***************************************************************************)
EXTENDS SensorScan, SensorWake, SensorRest, SensorHealth, FiniteSetTheorems, TLAPS

(* SensorWake and SensorRest.                                              *)

(* The depth of the FIFO that the loop needs: what comes while it works,   *)
(* in the longest sleep after that, and the packet of the tick in which it *)
(* reads.                                                                  *)
EnoughFifo == \A t \in UpdateTimes : Busy + t + Margin + 1 <= FifoSize

(* Packets the chip has, and the one of this tick that it still gets.      *)
Gathered == IF due THEN fifo + 1 ELSE fifo

WakeInv ==
  /\ fifo \in Nat /\ due \in BOOLEAN /\ slept \in Nat /\ spent \in 0 .. Busy
  /\ period \in UpdateTimes /\ wanted \in UpdateTimes
  /\ Gathered <= 1 + Busy + period + Margin
  /\ stage \in {"work", "decide", "again", "arm", "armed"} => Gathered <= 1 + spent
  /\ stage = "sleep" => slept <= period + Margin /\ Gathered <= 1 + spent + slept

LEMMA WakeConstants ==
  /\ \A t \in UpdateTimes : t \in Nat \ {0}
  /\ Busy \in Nat /\ Margin \in Nat /\ FifoSize \in Nat
  BY WakeAssumption

LEMMA LeastTime == Least \in UpdateTimes
  BY WakeAssumption DEF Least

(* What the loop does by itself leaves the FIFO alone or empties it.       *)
LEMMA LoopKeeps ==
  ASSUME WakeInv,
         Read \/ Work \/ Decide \/ Again \/ Arm \/ FallAsleep \/ SleepEnds \/ Woken \/ Restarted
  PROVE  WakeInv'
<1>1. CASE Read
  BY <1>1, WakeConstants DEF Read, WakeInv, Gathered
<1>2. CASE Work
  BY <1>2, WakeConstants DEF Work, WakeInv, Gathered
<1>3. CASE Decide \/ Again \/ Arm
  BY <1>3, WakeConstants DEF Decide, Again, Arm, WakeInv, Gathered
<1>4. CASE FallAsleep
  BY <1>4, WakeConstants DEF FallAsleep, WakeInv, Gathered
<1>5. CASE SleepEnds \/ Woken
  BY <1>5, WakeConstants DEF SleepEnds, Woken, WakeInv, Gathered
<1>6. CASE Restarted
  BY <1>6, WakeConstants DEF Restarted, WakeInv, Gathered
<1> QED BY <1>1, <1>2, <1>3, <1>4, <1>5, <1>6

(* A packet arrives in the tick it was counted in; the interrupt it may    *)
(* raise can only end a sleep.                                             *)
LEMMA ArriveKeeps == ASSUME WakeInv, Arrive PROVE WakeInv'
<1>1. /\ due /\ due' = FALSE /\ fifo' \in {fifo, fifo + 1}
      /\ stage' \in {stage, "woken"} /\ UNCHANGED <<slept, spent, period, wanted>>
  BY DEF Arrive, Interrupt
<1>2. fifo' \in Nat /\ Gathered' <= Gathered /\ Gathered \in Nat /\ Gathered' \in Nat
  BY <1>1 DEF WakeInv, Gathered
<1>3. Gathered' <= 1 + Busy + period' + Margin BY <1>1, <1>2, WakeConstants DEF WakeInv
<1>4. CASE stage' = stage
  <2>1. stage' \in {"work", "decide", "again", "arm", "armed"} => Gathered' <= 1 + spent'
    BY <1>1, <1>2, <1>4, WakeConstants DEF WakeInv
  <2>2. stage' = "sleep" => slept' <= period' + Margin /\ Gathered' <= 1 + spent' + slept'
    BY <1>1, <1>2, <1>4, WakeConstants DEF WakeInv
  <2> QED BY <1>1, <1>2, <1>3, <2>1, <2>2 DEF WakeInv
<1>5. CASE stage' = "woken"
  BY <1>1, <1>2, <1>3, <1>5, WakeConstants DEF WakeInv
<1> QED BY <1>1, <1>4, <1>5

LEMMA WakeTickKeeps == ASSUME WakeInv, WakeTick PROVE WakeInv'
<1>1. ~due /\ due' = TRUE /\ UNCHANGED <<fifo, stage, wfi, period, wanted>> BY DEF WakeTick
<1>2. Gathered' = Gathered + 1 /\ Gathered \in Nat BY <1>1 DEF WakeInv, Gathered
<1>3. CASE stage = "work"
  BY <1>1, <1>2, <1>3, WakeConstants DEF WakeTick, WakeInv
<1>4. CASE stage = "sleep"
  BY <1>1, <1>2, <1>4, WakeConstants DEF WakeTick, TimedOut, WakeInv
<1> QED BY <1>3, <1>4 DEF WakeTick

\* When the FIFO of the IMU holds what comes while the loop works and in its longest sleep,
\* no packet is lost, however late the interrupt comes and however often the loop changes
\* its period (sensor_loop).
THEOREM FifoSuffices == EnoughFifo /\ WakeSpec => []NothingLost
<1> SUFFICES ASSUME EnoughFifo PROVE WakeSpec => []NothingLost OBVIOUS
<1>1. WakeInit => WakeInv
  <2> SUFFICES ASSUME WakeInit PROVE WakeInv OBVIOUS
  <2>1. fifo = 0 /\ due = FALSE /\ stage = "read" /\ slept = 0 /\ spent = 0
        /\ period = Least /\ wanted = Least
    BY DEF WakeInit
  <2>2. Gathered = 0 BY <2>1 DEF Gathered
  <2>3. period \in Nat /\ Gathered <= 1 + Busy + period + Margin
    BY <2>1, <2>2, LeastTime, WakeConstants
  <2>4. fifo \in Nat /\ slept \in Nat /\ spent \in 0 .. Busy BY <2>1, WakeConstants
  <2>5. due \in BOOLEAN BY <2>1, Zenon
  <2> QED BY <2>1, <2>3, <2>4, <2>5, LeastTime DEF WakeInv
<1>2. WakeInv /\ [WakeNext]_wakeVars => WakeInv'
  <2> SUFFICES ASSUME WakeInv, [WakeNext]_wakeVars PROVE WakeInv' OBVIOUS
  <2>1. CASE UNCHANGED wakeVars BY <2>1 DEF wakeVars, WakeInv, Gathered
  <2> QED BY <2>1, LoopKeeps, ArriveKeeps, WakeTickKeeps DEF WakeNext
<1>3. WakeInv => NothingLost
  BY WakeConstants DEF EnoughFifo, WakeInv, Gathered, NothingLost
<1> QED BY <1>1, <1>2, <1>3, PTL DEF WakeSpec

-----------------------------------------------------------------------------
(* The clock that a rest is counted by shows no more than the time since   *)
(* an update was last seen, unless the loop has not noticed its end.       *)
RestInv ==
  /\ idle \in 0 .. Limit /\ sinceAttempt \in 0 .. Limit /\ fresh \in 0 .. Limit
  /\ updating \in BOOLEAN /\ wasUpdating \in BOOLEAN
  /\ ~wasUpdating => idle <= fresh
  /\ asks => fresh > RampMin

LEMMA RestConstants ==
  /\ RampMin \in Nat /\ RampMax \in Nat /\ ActiveDelay \in Nat /\ Limit = ActiveDelay + 4
  /\ RampMin <= RampMax /\ RampMin <= ActiveDelay
  BY RestAssumption DEF Limit

LEMMA RampBounded ==
  ASSUME NEW rest \in 0 .. Limit, sinceAttempt \in 0 .. Limit
  PROVE  Ramp(rest) >= RampMin /\ Ramp(rest) \in Nat
  BY RestConstants DEF Ramp

LEMMA EvaluateKeeps == ASSUME RestInv, Evaluate PROVE RestInv'
<1>1. UNCHANGED updating /\ wasUpdating' = updating /\ idle' = (IF moves THEN 0 ELSE Idle)
      /\ fresh' = (IF updating THEN 0 ELSE fresh)
  BY DEF Evaluate
<1>2. Idle \in 0 .. Limit /\ (~updating => Idle <= fresh) BY RestConstants DEF Idle, RestInv
<1>3. ~updating' => idle' <= fresh' BY <1>1, <1>2, RestConstants DEF RestInv
<1>4. CASE HeldAwake
  <2>1. asks' = FALSE /\ sinceAttempt' \in {0, sinceAttempt} BY <1>4 DEF Evaluate, Awake
  <2> QED BY <1>1, <1>2, <1>3, <2>1, RestConstants DEF RestInv
<1>5. CASE ~HeldAwake
  <2>1. ~updating /\ Resting(Idle) BY <1>5 DEF Evaluate, HeldAwake
  <2>2. UNCHANGED <<sinceAttempt, fresh>> BY <1>1, <2>1 DEF Resting
  <2>3. asks' => Idle > ActiveDelay \/ Idle > Ramp(Idle) BY <2>1 DEF Resting
  <2>4. Ramp(Idle) >= RampMin /\ Ramp(Idle) \in Nat BY <1>2, RampBounded DEF RestInv
  <2>5. asks' => fresh' > RampMin
    BY <1>2, <2>1, <2>2, <2>3, <2>4, RestConstants DEF RestInv
  <2> QED BY <1>1, <1>2, <1>3, <2>2, <2>5, RestConstants DEF RestInv
<1> QED BY <1>4, <1>5

LEMMA RestTickKeeps == ASSUME RestInv, RestTick PROVE RestInv'
  BY RestConstants DEF RestTick, RestInv, Aged

\* Whatever the tracker was doing before its sensors were suspended for a batch of updates:
\* it does not ask to sleep before a timeout has passed since then.
THEOREM RestIsFresh == RestSpec => []FreshAfterBatch
<1>1. RestInit => RestInv
  <2> SUFFICES ASSUME RestInit PROVE RestInv OBVIOUS
  <2>1. idle = 0 /\ sinceAttempt = 0 /\ fresh = Limit /\ Limit \in Nat
        /\ updating = FALSE /\ wasUpdating = FALSE /\ asks = FALSE
    BY RestConstants DEF RestInit
  <2>2. updating \in BOOLEAN /\ wasUpdating \in BOOLEAN BY <2>1, Zenon
  <2> QED BY <2>1, <2>2 DEF RestInv
<1>2. RestInv /\ [RestNext]_restVars => RestInv'
  <2> SUFFICES ASSUME RestInv, [RestNext]_restVars PROVE RestInv' OBVIOUS
  <2>1. CASE World BY <2>1 DEF World, RestInv
  <2>2. CASE UNCHANGED restVars BY <2>2 DEF restVars, RestInv
  <2> QED BY <2>1, <2>2, EvaluateKeeps, RestTickKeeps DEF RestNext
<1>3. RestInv => FreshAfterBatch BY DEF RestInv, FreshAfterBatch
<1> QED BY <1>1, <1>2, <1>3, PTL DEF RestSpec

-----------------------------------------------------------------------------
(* SensorScan: what is remembered of the chips.                            *)

(* What an unmarked address cannot be, and what a marked one is.           *)
IsMarked(dev) == dev.addr \in 8 .. 14

Hardware ==
  /\ imuChip \in [at : {"spi", "i2c"}, addr : 1 .. 6]
  /\ magChip \in [at : {"spi", "i2c", "behind"}, addr : 1 .. 6]
  /\ through = (magChip.at = "behind")

(* Marks are put on only what is behind an IMU.  A second try begins with  *)
(* nothing remembered of the IMU.  Only while there is no scan is one      *)
(* known, and then it is what the scan met.                                *)
ScanInv ==
  /\ Hardware /\ magWanted \in BOOLEAN
  /\ imuDev \in Devs /\ magDev \in Devs
  /\ retained = [imu |-> retained.imu, mag |-> retained.mag]
  /\ retained.imu \in Devs /\ retained.mag \in Devs
  /\ ~through => ~IsMarked(magDev) /\ ~IsMarked(retained.mag)
  /\ scanning = "again" => imuDev.addr = 0 /\ retained.imu.addr = 0
  /\ scanning \in {"no", "first", "again"} /\ imuFound \in BOOLEAN
  /\ scanning # "no" => ~imuFound
  /\ ScanFinds

-----------------------------------------------------------------------------
LEMMA DevIs ==
  ASSUME NEW d \in Devs
  PROVE  /\ d.addr \in 0 .. 15 /\ d.reg \in {"any", "own", "spi"}
         /\ d = [addr |-> d.addr, reg |-> d.reg]
  BY DEF Devs

LEMMA FixedDevs ==
  /\ Nowhere \in Devs /\ Ignored \in Devs /\ Nowhere.addr = 0 /\ Ignored.addr = 15
  BY DEF Nowhere, Ignored, Devs

LEMMA I2cDevIs ==
  ASSUME NEW d \in Devs, NEW c, c.addr \in 1 .. 6, NEW here \in BOOLEAN
  PROVE  /\ I2cDev(d, c, here) \in Devs
         /\ IsMarked(I2cDev(d, c, here)) => IsMarked(d)
  BY FixedDevs DEF I2cDev, Devs, IsMarked

LEMMA SpiDevIs ==
  ASSUME NEW d \in Devs, NEW here \in BOOLEAN
  PROVE  SpiDev(d, here) \in Devs /\ SpiDev(d, here).addr = d.addr
  BY DEF SpiDev, Devs

LEMMA UnmarkedIs ==
  ASSUME NEW d \in Devs
  PROVE  Unmarked(d) \in Devs /\ Unmarked(d).addr \in 0 .. 6
<1>1. d.addr \in 0 .. 15 BY DevIs
<1>2. CASE d.addr > 8 /\ d.addr % 8 \in 1 .. 6
  BY <1>1, <1>2 DEF Unmarked, Devs
<1>3. CASE ~(d.addr > 8 /\ d.addr % 8 \in 1 .. 6)
  BY <1>3, FixedDevs DEF Unmarked
<1> QED BY <1>2, <1>3

LEMMA MarkedIs == ASSUME NEW d \in Devs PROVE Marked(d) \in Devs
<1>1. d.addr \in 0 .. 15 BY DevIs
<1> QED BY <1>1 DEF Marked, Devs

(* The IMU is found when it answers and its address is not ignored, and    *)
(* never when it does not.                                                 *)
LEMMA ImuFacts ==
  ASSUME Hardware, NEW d \in Devs
  PROVE  /\ ImuScanned(d) \in Devs
         /\ ImuFinds(d) => "imu" \in answers
         /\ "imu" \in answers /\ d.addr = 0 => ImuFinds(d)
<1>1. imuChip.addr \in 1 .. 6 /\ imuChip.at \in {"spi", "i2c"} BY DEF Hardware
<1>2. ImuScanned(d) \in Devs
  <2>1. ImuHere("spi") \in BOOLEAN /\ ImuHere("i2c") \in BOOLEAN BY DEF ImuHere
  <2> QED BY <1>1, <2>1, SpiDevIs, I2cDevIs DEF ImuScanned
<1>3. ImuFinds(d) => "imu" \in answers BY DEF ImuFinds, I2cFinds, ImuHere
<1>4. "imu" \in answers /\ d.addr = 0 => ImuFinds(d)
  BY <1>1 DEF ImuFinds, I2cFinds, ImuHere, Skipped
<1> QED BY <1>2, <1>3, <1>4

(* Behind the IMU an echo is not taken for a chip.                         *)
LEMMA ExtFacts ==
  ASSUME NEW d \in Devs, NEW here \in BOOLEAN
  PROVE  /\ ExtFinds(d, here) => here
         /\ here /\ d.addr \in 0 .. 6 => ExtFinds(d, here)
  BY DevIs DEF ExtFinds, ExtRead, Skipped

(* The magnetometer is found only if it answers, and if it does unless its *)
(* address is ignored; it is marked only behind an IMU.                    *)
LEMMA MagFacts ==
  ASSUME Hardware, NEW d \in Devs, NEW imu \in Devs, ~through => ~IsMarked(d)
  PROVE  /\ MagResult(d, imu).dev \in Devs
         /\ MagResult(d, imu).found => "mag" \in answers
         /\ "mag" \in answers /\ d.addr \notin {7, 15} => MagResult(d, imu).found
         /\ ~through => ~IsMarked(MagResult(d, imu).dev)
<1> DEFINE spi    == SpiDev(d, MagHere("spi"))
           i2c    == I2cDev(spi, magChip, MagHere("i2c"))
           inner  == Unmarked(i2c)
           beyond == IF imu.reg = "spi" THEN ExtFinds(inner, MagHere("behind"))
                     ELSE I2cFinds(inner, magChip, MagHere("behind") \/ MagHere("i2c"))
           last   == I2cDev(inner, magChip, beyond)
           result == MagResult(d, imu)
<1>1. magChip.addr \in 1 .. 6 /\ magChip.at \in {"spi", "i2c", "behind"}
      /\ through = (magChip.at = "behind")
  BY DEF Hardware
<1>2. result = IF MagHere("spi") THEN [found |-> TRUE, dev |-> spi]
               ELSE IF I2cFinds(spi, magChip, MagHere("i2c")) THEN [found |-> TRUE, dev |-> i2c]
               ELSE IF ~through THEN [found |-> FALSE, dev |-> i2c]
               ELSE [found |-> beyond, dev |-> IF beyond THEN Marked(last) ELSE last]
  BY DEF MagResult
<1>3. spi \in Devs /\ spi.addr = d.addr BY SpiDevIs DEF MagHere
<1>4. i2c \in Devs /\ (IsMarked(i2c) => IsMarked(spi)) BY <1>1, <1>3, I2cDevIs DEF MagHere
<1>5. inner \in Devs /\ inner.addr \in 0 .. 6 BY <1>4, UnmarkedIs
<1>6. /\ beyond \in BOOLEAN
      /\ beyond => MagHere("behind") \/ MagHere("i2c")
      /\ MagHere("behind") => beyond
  <2>1. CASE imu.reg = "spi"
    <3>1. MagHere("behind") \in BOOLEAN BY DEF MagHere
    <3>2. ExtFinds(inner, MagHere("behind")) \in BOOLEAN BY DEF ExtFinds
    <3> QED BY <1>5, <2>1, <3>1, <3>2, ExtFacts
  <2>2. CASE imu.reg # "spi"
    BY <1>5, <2>2 DEF I2cFinds, Skipped, MagHere
  <2> QED BY <2>1, <2>2
<1>7. last \in Devs BY <1>1, <1>5, <1>6, I2cDevIs
<1>8. Marked(last) \in Devs BY <1>7, MarkedIs
<1>9. IsMarked(spi) => IsMarked(d) BY <1>3 DEF IsMarked
<1>10. I2cFinds(spi, magChip, MagHere("i2c")) <=> spi.addr < 7 /\ MagHere("i2c")
  BY <1>3, DevIs DEF I2cFinds, Skipped
<1>11. MagHere("spi") \/ MagHere("i2c") \/ MagHere("behind") <=> "mag" \in answers
  BY <1>1 DEF MagHere
<1>12. (MagHere("behind") => through) /\ (MagHere("i2c") => ~through)
  BY <1>1 DEF MagHere
<1>13. d.addr \in 0 .. 15 BY DevIs
<1> HIDE DEF spi, i2c, inner, beyond, last, result
<1>14. result.dev \in Devs BY <1>2, <1>3, <1>4, <1>7, <1>8
<1>15. result.found => "mag" \in answers BY <1>2, <1>6, <1>10, <1>11
<1>16. "mag" \in answers /\ d.addr \notin {7, 15} => result.found
  BY <1>2, <1>3, <1>6, <1>10, <1>11, <1>12, <1>13 DEF IsMarked
<1>17. ~through => ~IsMarked(result.dev) BY <1>2, <1>4, <1>9
<1> QED BY <1>14, <1>15, <1>16, <1>17 DEF result

-----------------------------------------------------------------------------
LEMMA ReadMagIs ==
  ASSUME ScanInv
  PROVE  /\ ReadMag(magDev) \in Devs
         /\ ~through => ~IsMarked(ReadMag(magDev))
         /\ magWanted => ReadMag(magDev).addr \notin {7, 15}
<1> DEFINE kept == Restored(retained.mag, magDev)
<1>1. kept \in Devs /\ (~through => ~IsMarked(kept)) BY DEF Restored, ScanInv
<1>2. kept.addr \in 0 .. 15 BY <1>1, DevIs
<1>3. ReadMag(magDev) = IF magWanted /\ kept.addr % 8 = 7 THEN Nowhere ELSE kept
  BY DEF ReadMag
<1> HIDE DEF kept
<1>4. kept.addr \in {7, 15} => kept.addr % 8 = 7 BY <1>2
<1> QED BY <1>1, <1>2, <1>3, <1>4, FixedDevs DEF IsMarked

LEMMA ScanSensorsKeeps == ASSUME ScanInv, ScanSensors PROVE ScanInv'
<1> DEFINE imu == Restored(retained.imu, imuDev)
           mag == ReadMag(magDev)
           result == MagResult(mag, ImuScanned(imu))
<1>1. /\ UNCHANGED <<imuChip, magChip, through, echoes, answers, magWanted, steady>>
      /\ scanning \in {"first", "again"}
  BY DEF ScanSensors, hardware
<1>2. imu \in Devs /\ (scanning = "again" => imu.addr = 0) BY DEF Restored, ScanInv
<1>3. mag \in Devs /\ (~through => ~IsMarked(mag)) /\ (magWanted => mag.addr \notin {7, 15})
  BY ReadMagIs
<1>4. /\ ImuScanned(imu) \in Devs /\ (ImuFinds(imu) => "imu" \in answers)
      /\ "imu" \in answers /\ imu.addr = 0 => ImuFinds(imu)
  BY <1>2, ImuFacts DEF ScanInv
<1>5. /\ result.dev \in Devs /\ (result.found => "mag" \in answers)
      /\ "mag" \in answers /\ mag.addr \notin {7, 15} => result.found
      /\ ~through => ~IsMarked(result.dev)
  BY <1>3, <1>4, MagFacts DEF ScanInv
<1>6. Hardware' BY <1>1 DEF ScanInv, Hardware
<1>7. CASE ImuFinds(imu)
  <2>1. /\ imuDev' = ImuScanned(imu) /\ magDev' = result.dev
        /\ retained' = [imu |-> imuDev', mag |-> magDev']
        /\ imuFound' = TRUE /\ magFound' = result.found /\ scanning' = "no"
    BY <1>7 DEF ScanSensors, ScanWrite
  <2> HIDE DEF imu, mag, result
  <2>2. ScanFinds' BY <1>1, <1>3, <1>4, <1>5, <1>7, <2>1 DEF ScanFinds
  <2>3. /\ retained'.imu = imuDev' /\ retained'.mag = magDev'
        /\ retained' = [imu |-> retained'.imu, mag |-> retained'.mag]
    BY <2>1
  <2> QED BY <1>1, <1>4, <1>5, <1>6, <2>1, <2>2, <2>3 DEF ScanInv, IsMarked
<1>8. CASE ~ImuFinds(imu)
  <2>1. /\ imuDev' = (IF scanning = "first" THEN AfterFailure(ImuScanned(imu)) ELSE ImuScanned(imu))
        /\ magDev' = mag /\ retained' = [imu |-> Nowhere, mag |-> Nowhere]
        /\ scanning' = (IF scanning = "first" THEN "again" ELSE "no")
        /\ UNCHANGED <<imuFound, magFound>>
    BY <1>8 DEF ScanSensors, ScanClear
  <2>2. AfterFailure(ImuScanned(imu)) \in Devs /\ AfterFailure(ImuScanned(imu)).addr = 0
    BY <1>4 DEF AfterFailure, Devs
  <2> HIDE DEF imu, mag, result
  <2>3. imuDev' \in Devs /\ (scanning' = "again" => imuDev'.addr = 0) BY <1>1, <1>4, <2>1, <2>2
  <2>4. ScanFinds' BY <1>1, <1>2, <1>4, <1>8, <2>1 DEF ScanFinds, ScanInv
  <2>5. /\ retained'.imu = Nowhere /\ retained'.mag = Nowhere
        /\ retained' = [imu |-> retained'.imu, mag |-> retained'.mag]
    BY <2>1
  <2> QED BY <1>1, <1>3, <1>6, <2>1, <2>3, <2>4, <2>5, FixedDevs DEF ScanInv, IsMarked
<1> QED BY <1>7, <1>8

LEMMA OthersKeep ==
  ASSUME ScanInv, StartScan(TRUE) \/ StartScan(FALSE) \/ Answer \/ Reboot
  PROVE  ScanInv'
<1>1. Hardware' /\ UNCHANGED through
  BY DEF ScanInv, Hardware, StartScan, Answer, Reboot, hardware
<1>2. CASE StartScan(TRUE) \/ StartScan(FALSE)
  <2>1. /\ imuDev' \in {Nowhere, imuDev} /\ magDev' \in {Nowhere, magDev}
        /\ scanning' = "first" /\ imuFound' = FALSE /\ UNCHANGED <<retained, magWanted>>
    BY <1>2 DEF StartScan
  <2>2. ~IsMarked(Nowhere) BY FixedDevs DEF IsMarked
  <2>3. imuFound' \in BOOLEAN BY <2>1, Zenon
  <2>4. ~through => ~IsMarked(magDev)' /\ ~IsMarked(retained.mag)'
    BY <2>1, <2>2 DEF ScanInv, IsMarked
  <2> QED BY <1>1, <2>1, <2>3, <2>4, FixedDevs DEF ScanInv, ScanFinds
<1>3. CASE Answer
  <2>1. UNCHANGED <<imuDev, magDev, retained, magWanted, imuFound, scanning>> /\ steady' = FALSE
    BY <1>3 DEF Answer
  <2> QED BY <1>1, <2>1 DEF ScanInv, ScanFinds, IsMarked
<1>4. CASE Reboot
  <2>1. /\ imuDev' = Nowhere /\ magDev' = Nowhere /\ magWanted' \in BOOLEAN
        /\ imuFound' = FALSE /\ scanning' = "first"
        /\ retained' = retained \/ retained' = [imu |-> Nowhere, mag |-> Nowhere]
    BY <1>4 DEF Reboot
  <2>2. /\ retained' = [imu |-> retained'.imu, mag |-> retained'.mag]
        /\ retained'.imu \in Devs /\ retained'.mag \in Devs
        /\ ~through => ~IsMarked(retained'.mag)
    BY <2>1, FixedDevs DEF ScanInv, IsMarked
  <2>3. imuFound' \in BOOLEAN BY <2>1, Zenon
  <2> QED BY <1>1, <2>1, <2>2, <2>3, FixedDevs DEF ScanInv, ScanFinds, IsMarked
<1> QED BY <1>2, <1>3, <1>4

\* Whatever scans before have left in memory and in retained memory: what answers throughout
\* a scan is found, and what is not there is not (sensor_scan).
THEOREM AnswersAreFound == ScanSpec => []ScanFinds
<1>1. ScanInit => ScanInv
  <2> SUFFICES ASSUME ScanInit PROVE ScanInv OBVIOUS
  <2>1. Hardware
    <3>1. Addresses \subseteq 1 .. 6 BY ScanAssumption
    <3>2. PICK a \in Addresses, x \in {"spi", "i2c"} : imuChip = [at |-> x, addr |-> a]
      BY DEF ScanInit
    <3>3. PICK b \in Addresses, y \in {"spi", "i2c", "behind"} : magChip = [at |-> y, addr |-> b]
      BY DEF ScanInit
    <3> QED BY <3>1, <3>2, <3>3 DEF ScanInit, Hardware
  <2>2. /\ imuDev = Nowhere /\ magDev = Nowhere /\ scanning = "no" /\ steady = FALSE
        /\ retained = [imu |-> Nowhere, mag |-> Nowhere]
        /\ imuFound = FALSE /\ magWanted \in BOOLEAN
    BY DEF ScanInit
  <2>3. imuFound \in BOOLEAN BY <2>2, Zenon
  <2>4. retained.imu = Nowhere /\ retained.mag = Nowhere BY <2>2
  <2> QED BY <2>1, <2>2, <2>3, <2>4, FixedDevs DEF ScanInv, ScanFinds, IsMarked
<1>2. ScanInv /\ [ScanNext]_scanVars => ScanInv'
  <2> SUFFICES ASSUME ScanInv, [ScanNext]_scanVars PROVE ScanInv' OBVIOUS
  <2>1. CASE UNCHANGED scanVars
    BY <2>1 DEF scanVars, ScanInv, Hardware, IsMarked, ScanFinds
  <2> QED BY <2>1, ScanSensorsKeeps, OthersKeep DEF ScanNext
<1>3. ScanInv => ScanFinds BY DEF ScanInv
<1> QED BY <1>1, <1>2, <1>3, PTL DEF ScanSpec

-----------------------------------------------------------------------------
(* SensorHealth: what the ring of requests holds.                          *)

LEMMA RemainderIs ==
  ASSUME NEW n \in Nat, NEW r \in Nat \ {0}
  PROVE  \E q \in Nat : n % r = n - r * q /\ n % r \in 0 .. r - 1
<1>1. n % r \in 0 .. r - 1 BY SMT
<1>2. n \div r \in Nat BY SMT
<1>3. n % r = n - r * (n \div r) BY SMT
<1> QED BY <1>1, <1>2, <1>3, Zenon

LEMMA SmallMultiple ==
  ASSUME NEW q \in Int, NEW r \in Nat \ {0}, r * q < r, 0 - r < r * q
  PROVE  q = 0
<1>1. CASE q >= 1
  <2>1. r * q = r + r * (q - 1) /\ r * (q - 1) \in Nat /\ r * q \in Int BY <1>1
  <2> QED BY <2>1
<1>2. CASE q <= 0 - 1
  <2>1. r * q = (0 - r) - r * (0 - 1 - q) /\ r * (0 - 1 - q) \in Nat /\ r * q \in Int BY <1>2
  <2> QED BY <2>1
<1> QED BY <1>1, <1>2

LEMMA SameResidue ==
  ASSUME NEW n \in Nat, NEW r \in Nat \ {0}, NEW p \in Nat, NEW q \in Nat,
         NEW a \in 0 .. r - 1, NEW b \in 0 .. r - 1, a = n + r - r * p, b = n - r * q
  PROVE  a = b
<1>1. r * p \in Nat /\ r * q \in Nat /\ r * (1 - p + q) = r - r * p + r * q OBVIOUS
<1>2. 1 - p + q = 0 BY <1>1, SmallMultiple
<1>3. p = 1 + q BY <1>2
<1>4. r * (1 + q) = r + r * q BY <1>1
<1> QED BY <1>1, <1>3, <1>4

LEMMA NextRound ==
  ASSUME NEW n \in Nat, NEW r \in Nat \ {0} PROVE (n + r) % r = n % r
<1>1. \A m \in Nat : m = n + r => m % r = n % r
  <2> SUFFICES ASSUME NEW m \in Nat, m = n + r PROVE m % r = n % r OBVIOUS
  <2>1. PICK p \in Nat : m % r = m - r * p /\ m % r \in 0 .. r - 1 BY RemainderIs
  <2>2. PICK q \in Nat : n % r = n - r * q /\ n % r \in 0 .. r - 1 BY RemainderIs
  <2>3. PICK a \in 0 .. r - 1 : a = m % r BY <2>1
  <2>4. PICK b \in 0 .. r - 1 : b = n % r BY <2>2
  <2>5. a = n + r - r * p BY <2>1, <2>3
  <2>6. b = n - r * q BY <2>2, <2>4
  <2>7. a = b BY <2>5, <2>6, SameResidue
  <2> QED BY <2>3, <2>4, <2>7
<1> QED BY <1>1

LEMMA OneRound ==
  ASSUME NEW j \in Nat, NEW k \in Nat, NEW r \in Nat \ {0}, j < k, k < j + r
  PROVE  j % r # k % r
<1>1. PICK p \in Nat : j % r = j - r * p BY RemainderIs
<1>2. PICK q \in Nat : k % r = k - r * q BY RemainderIs
<1>3. r * p \in Nat /\ r * q \in Nat /\ r * (q - p) = r * q - r * p OBVIOUS
<1> SUFFICES ASSUME j % r = k % r PROVE FALSE OBVIOUS
<1>4. q - p = 0 BY <1>1, <1>2, <1>3, SmallMultiple
<1> QED BY <1>1, <1>2, <1>4

-----------------------------------------------------------------------------
(* The ring holds the times of the last requests that were spared, in      *)
(* their order, each under an event of its own.                            *)
Latest(count) == {j \in 0 .. count - 1 : count <= j + Requests}

Numbered(times, count, entered, events, h) ==
  /\ \A j \in Latest(count) : <<times[j % Requests], h[j]>> \in entered /\ h[j] < events
  /\ \A j, k \in Latest(count) : j < k => h[j] < h[k]

Ring(times, count, entered, time, events) ==
  /\ time \in Nat /\ count \in Nat /\ events \in Nat
  /\ times \in [0 .. Requests - 1 -> Nat] /\ IsFiniteSet(entered)
  /\ \A j \in Latest(count) : times[j % Requests] <= time
  /\ \A j, k \in Latest(count) : j < k => times[j % Requests] <= times[k % Requests]
  /\ \E h \in [Nat -> Nat] : Numbered(times, count, entered, events, h)

RingInv == Ring(askedAt, asked, spared, now, healthEvents)

LEMMA RequestsType == Requests \in Nat \ {0} BY HealthAssumption

LEMMA LatestIs ==
  ASSUME NEW n \in Nat, NEW j \in Latest(n)
  PROVE  j \in Nat /\ j < n /\ n <= j + Requests /\ j % Requests \in 0 .. Requests - 1
<1>1. j \in Nat /\ j < n /\ n <= j + Requests BY DEF Latest
<1> QED BY <1>1, RequestsType

(* A request is entered behind those before it.                            *)
LEMMA EnteredKeeps ==
  ASSUME NEW times, NEW n, NEW entered, NEW time, NEW events, Ring(times, n, entered, time, events)
  PROVE  Ring([times EXCEPT ![n % Requests] = time], n + 1, entered \cup {<<time, events>>},
              time, events + 1)
<1> DEFINE later == [times EXCEPT ![n % Requests] = time]
           more == entered \cup {<<time, events>>}
           L == Latest(n + 1)
<1>0. Requests \in Nat \ {0} /\ n \in Nat /\ n + 1 \in Nat /\ time \in Nat /\ events \in Nat
  BY RequestsType DEF Ring
<1>1. L \subseteq Latest(n) \cup {n} BY <1>0 DEF Latest
<1>2. n % Requests \in 0 .. Requests - 1 BY <1>0
<1>3. later \in [0 .. Requests - 1 -> Nat] /\ later[n % Requests] = time
  BY <1>0, <1>2 DEF Ring
<1>4. \A j \in L \ {n} :
         /\ j \in Latest(n) /\ j \in Nat /\ j < n
         /\ j % Requests # n % Requests /\ j % Requests \in 0 .. Requests - 1
  <2> TAKE j \in L \ {n}
  <2>1. j \in Latest(n) BY <1>1
  <2>2. j \in Nat /\ j < n /\ n + 1 <= j + Requests /\ j % Requests \in 0 .. Requests - 1
    BY <1>0, <2>1, LatestIs
  <2>3. j < n /\ n < j + Requests BY <1>0, <2>2
  <2>4. j % Requests # n % Requests BY <1>0, <2>2, <2>3, OneRound
  <2> QED BY <2>1, <2>2, <2>4
<1>5. \A j \in L \ {n} : later[j % Requests] = times[j % Requests]
  BY <1>4 DEF Ring
<1> HIDE DEF later
<1>6. \A j \in L : later[j % Requests] <= time
  <2> TAKE j \in L
  <2>1. CASE j = n BY <1>0, <1>3, <2>1
  <2>2. CASE j # n BY <1>4, <1>5, <2>2 DEF Ring
  <2> QED BY <2>1, <2>2
<1>7. \A j, k \in L : j < k => later[j % Requests] <= later[k % Requests]
  <2> SUFFICES ASSUME NEW j \in L, NEW k \in L, j < k
               PROVE  later[j % Requests] <= later[k % Requests]
    OBVIOUS
  <2>1. j # n BY <1>0, <1>1 DEF Latest
  <2>2. CASE k = n BY <1>3, <1>4, <1>5, <2>1, <2>2 DEF Ring
  <2>3. CASE k # n BY <1>4, <1>5, <2>1, <2>3 DEF Ring
  <2> QED BY <2>2, <2>3
<1>8. PICK h \in [Nat -> Nat] : Numbered(times, n, entered, events, h)
  BY DEF Ring
<1> DEFINE g == [h EXCEPT ![n] = events]
<1>9. g \in [Nat -> Nat] /\ g[n] = events /\ \A j \in Nat : j # n => g[j] = h[j]
  BY <1>0
<1> HIDE DEF g
<1>10. \A j \in L : <<later[j % Requests], g[j]>> \in more /\ g[j] < events + 1
  <2> SUFFICES ASSUME NEW j \in L
               PROVE <<later[j % Requests], g[j]>> \in more /\ g[j] < events + 1
    OBVIOUS
  <2>1. CASE j = n BY <1>0, <1>3, <1>9, <2>1
  <2>2. CASE j # n
    <3>1. j \in Latest(n) /\ j \in Nat BY <1>4, <2>2
    <3>2. <<times[j % Requests], h[j]>> \in entered /\ h[j] < events BY <1>8, <3>1 DEF Numbered
    <3>3. later[j % Requests] = times[j % Requests] /\ g[j] = h[j] /\ h[j] \in Nat
      BY <1>5, <1>9, <2>2, <3>1
    <3> QED BY <1>0, <3>2, <3>3
  <2> QED BY <2>1, <2>2
<1>11. \A j, k \in L : j < k => g[j] < g[k]
  <2> SUFFICES ASSUME NEW j \in L, NEW k \in L, j < k PROVE g[j] < g[k] OBVIOUS
  <2>1. j # n BY <1>0, <1>1 DEF Latest
  <2>2. CASE k = n BY <1>4, <1>8, <1>9, <2>1, <2>2 DEF Numbered
  <2>3. CASE k # n BY <1>4, <1>8, <1>9, <2>1, <2>3 DEF Numbered
  <2> QED BY <2>2, <2>3
<1>12. IsFiniteSet(more) BY FS_AddElement DEF Ring
<1>13. \E i \in [Nat -> Nat] : Numbered(later, n + 1, more, events + 1, i)
  BY <1>9, <1>10, <1>11 DEF Numbered
<1>14. events + 1 \in Nat BY <1>0
<1>15. Ring(later, n + 1, more, time, events + 1)
  BY <1>0, <1>3, <1>6, <1>7, <1>12, <1>13, <1>14 DEF Ring
<1> QED BY <1>15 DEF later

(* Nothing is remembered after the threshold was reached.                  *)
LEMMA EmptyRing ==
  ASSUME NEW entered, IsFiniteSet(entered), NEW time \in Nat, NEW events \in Nat
  PROVE  Ring([i \in 0 .. Requests - 1 |-> 0], 0, entered, time, events)
<1>1. Latest(0) = {} BY DEF Latest
<1>2. [j \in Nat |-> 0] \in [Nat -> Nat] OBVIOUS
<1>3. [i \in 0 .. Requests - 1 |-> 0] \in [0 .. Requests - 1 -> Nat] OBVIOUS
<1>4. Numbered([i \in 0 .. Requests - 1 |-> 0], 0, entered, events, [j \in Nat |-> 0])
  BY <1>1 DEF Numbered
<1> QED BY <1>1, <1>2, <1>3, <1>4 DEF Ring

(* Time passes, and other events happen.                                   *)
LEMMA RingStays ==
  ASSUME NEW times, NEW n, NEW entered, NEW time, NEW events, Ring(times, n, entered, time, events),
         NEW t \in {time, time + 1}, NEW e \in {events, events + 1}
  PROVE  Ring(times, n, entered, t, e)
<1>1. /\ time \in Nat /\ events \in Nat /\ n \in Nat
      /\ times \in [0 .. Requests - 1 -> Nat]
  BY DEF Ring
<1>2. t \in Nat /\ time <= t /\ e \in Nat /\ events <= e BY <1>1
<1>3. \A j \in Latest(n) : times[j % Requests] <= t
  <2> TAKE j \in Latest(n)
  <2>1. times[j % Requests] \in Nat BY <1>1, LatestIs
  <2>2. times[j % Requests] <= time BY DEF Ring
  <2> QED BY <1>1, <1>2, <2>1, <2>2
<1>4. PICK h \in [Nat -> Nat] : Numbered(times, n, entered, events, h) BY DEF Ring
<1>5. \A j \in Latest(n) : h[j] < e
  <2> TAKE j \in Latest(n)
  <2>1. h[j] \in Nat BY <1>1, LatestIs
  <2>2. h[j] < events BY <1>4 DEF Numbered
  <2>3. events \in Nat /\ e \in Nat /\ events <= e BY <1>1, <1>2
  <2> QED BY <2>1, <2>2, <2>3
<1>6. Numbered(times, n, entered, e, h) BY <1>4, <1>5 DEF Numbered
<1> QED BY <1>2, <1>3, <1>6 DEF Ring

(* When as many requests were entered as the ring has slots, and the       *)
(* oldest of them is recent, all are.                                      *)
LEMMA AllRecent ==
  ASSUME NEW times, NEW n, NEW entered, NEW time, NEW events, Ring(times, n, entered, time, events),
         n >= Requests, time - Oldest(times, n) < Window
  PROVE  Cardinality({r \in entered : time - r[1] < Window}) >= Requests
<1>0. Requests \in Nat \ {0} /\ n \in Nat /\ time \in Nat /\ Window \in Nat
  BY RequestsType, HealthAssumption DEF Ring
<1> DEFINE first == n - Requests
           I == first .. n - 1
           T == {r \in entered : time - r[1] < Window}
<1>1. first \in Nat /\ first \in Latest(n) /\ I = Latest(n) BY <1>0 DEF Latest
<1>2. first % Requests = n % Requests
  <2>1. (first + Requests) % Requests = first % Requests BY <1>0, <1>1, NextRound
  <2>2. first + Requests = n BY <1>0
  <2> QED BY <2>1, <2>2
<1>3. IsFiniteSet(I) /\ Cardinality(I) = Requests
  <2>1. first \in Int /\ n - 1 \in Int /\ ~(first > n - 1) /\ (n - 1) - first + 1 = Requests
    BY <1>0
  <2>2. IsFiniteSet(I) /\ Cardinality(I) = IF first > n - 1 THEN 0 ELSE (n - 1) - first + 1
    BY <2>1, FS_Interval
  <2> QED BY <2>1, <2>2
<1>4. IsFiniteSet(T) BY FS_Subset DEF Ring
<1>5. PICK h \in [Nat -> Nat] : Numbered(times, n, entered, events, h)
  BY DEF Ring
<1> DEFINE f == [j \in I |-> <<times[j % Requests], h[j]>>]
<1>6. \A j \in I : j \in Nat /\ first <= j /\ times[j % Requests] \in Nat
  <2> TAKE j \in I
  <2>1. j \in Nat /\ first <= j BY <1>0, <1>1
  <2>2. j % Requests \in 0 .. Requests - 1 BY <1>0, <2>1
  <2> QED BY <2>1, <2>2 DEF Ring
<1>7. \A j \in I : times[first % Requests] <= times[j % Requests]
  <2> TAKE j \in I
  <2>1. times[first % Requests] \in Nat BY <1>1, <1>6
  <2>2. CASE j = first BY <2>1, <2>2
  <2>3. CASE j # first
    <3>1. first < j BY <1>0, <1>6, <2>3
    <3> QED BY <1>1, <3>1 DEF Ring
  <2> QED BY <2>2, <2>3
<1>8. \A j \in I : f[j] \in T
  <2> TAKE j \in I
  <2>1. f[j] = <<times[j % Requests], h[j]>> OBVIOUS
  <2>2. time - times[first % Requests] < Window BY <1>2 DEF Oldest
  <2>3. times[j % Requests] \in Nat /\ times[first % Requests] \in Nat
        /\ times[first % Requests] <= times[j % Requests]
    BY <1>1, <1>6, <1>7
  <2>4. time - times[j % Requests] < Window BY <1>0, <2>2, <2>3
  <2>5. <<times[j % Requests], h[j]>> \in entered BY <1>1, <1>5 DEF Numbered
  <2> QED BY <2>1, <2>4, <2>5
<1>9. \A j, k \in I : f[j] = f[k] => j = k
  <2> SUFFICES ASSUME NEW j \in I, NEW k \in I, f[j] = f[k] PROVE j = k OBVIOUS
  <2>1. h[j] = h[k] OBVIOUS
  <2>2. ~(h[j] < h[k]) /\ ~(h[k] < h[j]) BY <1>6, <2>1
  <2>3. ~(j < k) /\ ~(k < j) BY <1>1, <1>5, <2>2 DEF Numbered
  <2> QED BY <1>6, <2>3
<1>10. f \in Injection(I, T)
  <2>1. f \in [I -> T] BY <1>8
  <2> HIDE DEF f, I, T
  <2> QED BY <1>9, <2>1 DEF Injection, IsInjective
<1>11. Cardinality(I) <= Cardinality(T) BY <1>4, <1>10, FS_Injection
<1>12. Cardinality(T) \in Nat BY <1>4, FS_CardinalityType
<1> QED BY <1>0, <1>3, <1>11, <1>12

LEMMA SameRing ==
  ASSUME RingInv, UNCHANGED forced, now' \in {now, now + 1},
         healthEvents' \in {healthEvents, healthEvents + 1}
  PROVE  RingInv'
<1>1. Ring(askedAt, asked, spared, now', healthEvents') BY RingStays DEF RingInv
<1>2. askedAt' = askedAt /\ asked' = asked /\ spared' = spared BY DEF forced
<1> QED BY <1>1, <1>2 DEF RingInv

LEMMA RequestKeeps ==
  ASSUME RingInv, RequestScan
  PROVE  /\ RingInv'
         /\ at = "loop" /\ at' = "scan" /\ Healthy /\ now - lastSend < Quiet
              => Cardinality({r \in spared' : now - r[1] < Window}) >= Requests
<1> DEFINE times == [askedAt EXCEPT ![asked % Requests] = now]
           enough == asked + 1 >= Requests /\ now - Oldest(times, asked + 1) < Window
<1>1. now' = now /\ healthEvents' = healthEvents + 1 BY DEF RequestScan, HealthEvent, seen
<1>2. Ring(times, asked + 1, spared \cup {<<now, healthEvents>>}, now, healthEvents + 1)
  BY EnteredKeeps DEF RingInv
<1>3. CASE Healthy
  <2>1. /\ spared' = spared \cup {<<now, healthEvents>>}
        /\ IF enough THEN askedAt' = [i \in 0 .. Requests - 1 |-> 0] /\ asked' = 0
           ELSE askedAt' = times /\ asked' = asked + 1
        /\ now - lastSend < Quiet /\ at # at' => enough
    BY <1>3 DEF RequestScan
  <2>2. enough => Cardinality({r \in spared' : now - r[1] < Window}) >= Requests
    BY <1>2, <2>1, AllRecent
  <2>3. IsFiniteSet(spared') /\ now \in Nat /\ healthEvents + 1 \in Nat
    BY <1>2, <2>1 DEF Ring
  <2>4. CASE enough
    <3>1. Ring(askedAt', asked', spared', now', healthEvents')
      BY <1>1, <2>1, <2>3, <2>4, EmptyRing
    <3> QED BY <2>2, <2>4, <3>1 DEF RingInv
  <2>5. CASE ~enough
    <3>1. Ring(askedAt', asked', spared', now', healthEvents')
      BY <1>1, <1>2, <2>1, <2>5
    <3>2. at = "loop" /\ at' = "scan" /\ now - lastSend < Quiet => FALSE BY <2>1, <2>5
    <3> QED BY <3>1, <3>2 DEF RingInv
  <2> QED BY <2>4, <2>5
<1>4. CASE ~Healthy
  <2>1. UNCHANGED forced BY <1>4 DEF RequestScan
  <2> QED BY <1>1, <1>4, <2>1, SameRing
<1> QED BY <1>3, <1>4

\* For any threshold: a loop that sends data is given up for a forced scan only when that
\* was asked for as often as the threshold says within the window (sensor_request_scan).
THEOREM HealthyIsSpared == HealthSpec => SparesHealthy
<1>1. HealthInit => RingInv
  <2> SUFFICES ASSUME HealthInit PROVE RingInv OBVIOUS
  <2>1. /\ now = 1 /\ asked = 0 /\ healthEvents = 0 /\ spared = {}
        /\ askedAt = [i \in 0 .. Requests - 1 |-> 0]
    BY DEF HealthInit
  <2>2. IsFiniteSet(spared) BY <2>1, FS_EmptySet
  <2> QED BY <2>1, <2>2, EmptyRing DEF RingInv
<1>2. RingInv /\ [HealthNext]_healthVars => RingInv'
  <2> SUFFICES ASSUME RingInv, [HealthNext]_healthVars PROVE RingInv' OBVIOUS
  <2>1. CASE ChipChanges BY <2>1, SameRing DEF ChipChanges, HealthEvent, seen
  <2>2. CASE Scan \/ InitSensor \/ Turn BY <2>2, SameRing DEF Scan, InitSensor, Turn, seen
  <2>3. CASE UNCHANGED healthVars BY <2>3, SameRing DEF healthVars, forced, seen
  <2> QED BY <2>1, <2>2, <2>3, RequestKeeps DEF HealthNext
<1>3. RingInv /\ [HealthNext]_healthVars
      => [ at = "loop" /\ at' = "scan" /\ Healthy /\ now - lastSend < Quiet
           => Cardinality({r \in spared' : now - r[1] < Window}) >= Requests ]_healthVars
  <2> SUFFICES ASSUME RingInv, HealthNext, at = "loop", at' = "scan", Healthy, now - lastSend < Quiet
               PROVE  Cardinality({r \in spared' : now - r[1] < Window}) >= Requests
    OBVIOUS
  <2>1. RequestScan BY DEF HealthNext, ChipChanges, Scan, InitSensor, Turn
  <2> QED BY <2>1, RequestKeeps
<1> QED BY <1>1, <1>2, <1>3, PTL DEF HealthSpec, SparesHealthy
=============================================================================
