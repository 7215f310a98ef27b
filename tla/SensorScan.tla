------------------------------- MODULE SensorScan -------------------------------
(***************************************************************************)
(* How the IMU and the magnetometer are found (sensor_scan in              *)
(* sensor/sensor.c, and sensor/scan*.c).  Each may be at SPI or at I2C,    *)
(* the magnetometer also behind the IMU.  Where a chip was found is kept   *)
(* in retained memory and tried first; 0xFF says that none was found, and  *)
(* that it shall not be looked for.                                        *)
(*                                                                         *)
(* An address has seven bits in the code, three here: 0 is no address, 7   *)
(* out of range, 8 marks one behind the IMU, 15 is 0xFF.  A register is    *)
(* "any", the chip's "own", or that with the mark of SPI.                  *)
(***************************************************************************)
EXTENDS Naturals

CONSTANTS
    Addresses,   \* that chips have
    ScanEvents   \* bound: chips that stop or start to answer, reboots, scans

ASSUME ScanAssumption == Addresses \subseteq 1 .. 6 /\ Addresses # {} /\ ScanEvents \in Nat

VARIABLES
    imuChip, magChip,  \* the hardware: where it is, and the address it has
    through,     \* the IMU lets one talk to what is behind it
    echoes,      \* its I2C master returns what it read last when nobody answers
    answers,     \* the chips that answer
    imuDev, magDev,    \* sensor_imu_dev and sensor_imu_dev_reg, of the magnetometer too
    retained,    \* imu_addr, imu_reg, mag_addr, mag_reg
    magWanted,   \* retained->mag_enabled
    imuFound,    \* sensor_sensor_init
    magFound,    \* mag_available
    scanning,    \* "no", or which try it is
    steady,      \* history: nothing has changed since the scan began
    scanEvents

scanVars == <<imuChip, magChip, through, echoes, answers, imuDev, magDev, retained, magWanted,
              imuFound, magFound, scanning, steady, scanEvents>>
hardware == <<imuChip, magChip, through, echoes>>

Nowhere == [addr |-> 0, reg |-> "any"]
Ignored == [addr |-> 15, reg |-> "any"]

ScanInit ==
    /\ imuChip \in [at : {"spi", "i2c"}, addr : Addresses]
    /\ magChip \in [at : {"spi", "i2c", "behind"}, addr : Addresses]
    /\ magChip.at = "i2c" => magChip.addr # imuChip.addr
    /\ through = (magChip.at = "behind")
    /\ echoes \in BOOLEAN /\ (echoes => through /\ imuChip.at = "spi")
    /\ answers \in SUBSET {"imu", "mag"}
    /\ imuDev = Nowhere /\ magDev = Nowhere /\ retained = [imu |-> Nowhere, mag |-> Nowhere]
    /\ magWanted \in BOOLEAN /\ imuFound = FALSE /\ magFound = FALSE
    /\ scanning = "no" /\ steady = FALSE /\ scanEvents = 0

ScanEvent == scanEvents < ScanEvents /\ scanEvents' = scanEvents + 1

-----------------------------------------------------------------------------
(* scan.c, scan_spi.c and scan_ext.c.  The address and the register of     *)
(* before are tried first, then all of them.                               *)

Skipped(dev) == dev.addr >= 7
I2cFinds(dev, chip, here) == ~Skipped(dev) /\ here
\* The last pass of a search that fails is always over all addresses.
I2cDev(dev, chip, here) ==
    IF Skipped(dev) THEN dev
    ELSE IF here THEN [addr |-> chip.addr, reg |-> "own"] ELSE Ignored

\* A register that is marked matches none, which costs a pass.
SpiDev(dev, here) == [dev EXCEPT !.reg = IF here THEN "spi" ELSE "any"]

\* What is read over the I2C master of an IMU at SPI.  It may echo an identity.
ExtRead(reg, here) ==
    IF here THEN IF reg = "own" THEN "identity" ELSE "something else"
    ELSE IF echoes THEN "identity" ELSE "error"

ExtFinds_AtOnce(dev, here) == ~Skipped(dev) /\ ExtRead("own", here) = "identity"

\* sensor_scan_ext: an identity counts when another register does not hold it too, and
\* when it is read again.
ExtFinds(dev, here) ==
    /\ ~Skipped(dev) /\ ExtRead("own", here) = "identity"
    /\ ExtRead("cross", here) # "identity"

\* What precedes it: the mark is taken off, and an address that is out of range then is
\* cleared.
Unmarked(dev) ==
    IF dev.addr > 8 /\ dev.addr % 8 \in 1 .. 6 THEN [dev EXCEPT !.addr = @ % 8] ELSE Nowhere
Marked(dev) == IF dev.addr < 8 THEN [dev EXCEPT !.addr = @ + 8] ELSE dev

-----------------------------------------------------------------------------
(* sensor.c                                                                *)

Restored(kept, dev) == IF kept.addr # 0 THEN kept ELSE dev

ReadMag_AsItIs(dev) == Restored(retained.mag, dev)
\* sensor_scan_read: who wants the magnetometer wants it looked for.
ReadMag(dev) ==
    LET kept == Restored(retained.mag, dev)
    IN IF magWanted /\ kept.addr % 8 = 7 THEN Nowhere ELSE kept

\* An IMU at SPI keeps the address that was found at I2C before, or none.
ImuHere(at) == "imu" \in answers /\ imuChip.at = at
ImuScanned(dev) ==
    LET spi == SpiDev(dev, ImuHere("spi"))
    IN IF ImuHere("spi") THEN spi ELSE I2cDev(spi, imuChip, ImuHere("i2c"))
ImuFinds(dev) == ImuHere("spi") \/ I2cFinds(dev, imuChip, ImuHere("i2c"))

MagHere(at) == "mag" \in answers /\ magChip.at = at

\* The magnetometer: at SPI, at I2C, and then behind the IMU, over the same I2C bus
\* when the IMU is there.  There it finds again what is directly at the bus.
MagResult(dev, imu) ==
    LET spi    == SpiDev(dev, MagHere("spi"))
        i2c    == I2cDev(spi, magChip, MagHere("i2c"))
        inner  == Unmarked(i2c)
        beyond == IF imu.reg = "spi" THEN ExtFinds(inner, MagHere("behind"))
                  ELSE I2cFinds(inner, magChip, MagHere("behind") \/ MagHere("i2c"))
        last   == I2cDev(inner, magChip, beyond)
    IN IF MagHere("spi") THEN [found |-> TRUE, dev |-> spi]
       ELSE IF I2cFinds(spi, magChip, MagHere("i2c")) THEN [found |-> TRUE, dev |-> i2c]
       ELSE IF ~through THEN [found |-> FALSE, dev |-> i2c]
       ELSE [found |-> beyond, dev |-> IF beyond THEN Marked(last) ELSE last]

\* sensor_request_scan; a forced one forgets what the variables say.
StartScan(force) ==
    /\ ScanEvent /\ scanning = "no" /\ (force \/ ~imuFound)
    /\ scanning' = "first" /\ imuFound' = FALSE /\ steady' = TRUE
    /\ imuDev' = IF force THEN Nowhere ELSE imuDev
    /\ magDev' = IF force THEN Nowhere ELSE magDev
    /\ UNCHANGED <<hardware, answers, retained, magWanted, magFound>>

\* sensor_scan_thread tries twice, the second time at every address.
AfterFailure(dev) == [dev EXCEPT !.addr = 0]

ScanWrite == retained' = [imu |-> imuDev', mag |-> magDev']
ScanClear == retained' = [imu |-> Nowhere, mag |-> Nowhere]

\* sensor_scan
ScanSensors ==
    /\ scanning \in {"first", "again"}
    /\ LET imu == Restored(retained.imu, imuDev)
           mag == ReadMag(magDev)
           result == MagResult(mag, ImuScanned(imu))
       IN IF ImuFinds(imu)
          THEN /\ imuDev' = ImuScanned(imu) /\ magDev' = result.dev
               /\ ScanWrite
               /\ imuFound' = TRUE /\ magFound' = result.found /\ scanning' = "no"
          ELSE /\ imuDev' = IF scanning = "first" THEN AfterFailure(ImuScanned(imu)) ELSE ImuScanned(imu)
               /\ magDev' = mag /\ ScanClear
               /\ scanning' = IF scanning = "first" THEN "again" ELSE "no"
               /\ UNCHANGED <<imuFound, magFound>>
    /\ UNCHANGED <<hardware, answers, magWanted, steady, scanEvents>>

Answer ==
    /\ ScanEvent /\ answers' \in SUBSET {"imu", "mag"} \ {answers} /\ steady' = FALSE
    /\ UNCHANGED <<hardware, imuDev, magDev, retained, magWanted, imuFound, magFound, scanning>>

\* Also sensor_set_mag_enabled, which ends in one.
Reboot ==
    /\ ScanEvent /\ imuDev' = Nowhere /\ magDev' = Nowhere
    /\ magWanted' \in BOOLEAN /\ imuFound' = FALSE /\ magFound' = FALSE
    /\ scanning' = "first" /\ steady' = TRUE
    /\ retained' \in {retained, [imu |-> Nowhere, mag |-> Nowhere]}
    /\ UNCHANGED <<hardware, answers>>

ScanNext == StartScan(TRUE) \/ StartScan(FALSE) \/ ScanSensors \/ Answer \/ Reboot
ScanSpec == ScanInit /\ [][ScanNext]_scanVars

-----------------------------------------------------------------------------
Devs == [addr : 0 .. 15, reg : {"any", "own", "spi"}]
ScanTypeOK ==
    /\ answers \subseteq {"imu", "mag"} /\ {imuDev, magDev, retained.imu, retained.mag} \subseteq Devs
    /\ {magWanted, imuFound, magFound, steady, through, echoes} \subseteq BOOLEAN
    /\ scanning \in {"no", "first", "again"} /\ scanEvents \in 0 .. ScanEvents

\* Whatever scans have left behind in variables and in retained memory, by chips
\* that did not answer or from before a reboot: an IMU that answers throughout a
\* scan is found, and so is a magnetometer that is wanted; and none is found that is
\* not there, although the IMU may return what it read before (scan_ext.c:97).
ScanFinds ==
    scanning = "no" /\ steady =>
        /\ "imu" \in answers => imuFound
        /\ answers = {"imu", "mag"} /\ magWanted => magFound
        /\ imuFound /\ magFound => "mag" \in answers

\* "Any address out of range (00, 7f, etc.) will search all addresses" (scan.c:32)
SearchesAll == scanning = "no" /\ steady /\ answers = {"imu", "mag"} => magFound
=============================================================================
