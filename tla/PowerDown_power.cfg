\* Boot scan, a scan by remote command, a BMI270 calibration, an OTA update, power requests.
CONSTANTS
  Scanners = {"boot", "esb"}
  Boot = "boot"
  Downers = {"power", "connection"}
  Calibrators = {"calibration"}
  Power = "power"
  Connection = "connection"
SPECIFICATION FairSpec
PROPERTIES ThreadCreatedOnce PowerDownEnds
CHECK_DEADLOCK FALSE
