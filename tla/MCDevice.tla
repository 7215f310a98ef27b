------------------------------- MODULE MCDevice -------------------------------
(***************************************************************************)
(* Model checking of what keeps the tracker itself running: the update     *)
(* engine in RAM, the settings, the watchdog, the LED, the battery tracker *)
(* and the filter before it, and the button.  They share no state in the   *)
(* models: a behaviour follows one of them, the others stand still.        *)
(***************************************************************************)
EXTENDS RamEngine, Settings, Watchdog, Led, BatteryTracker, BatteryFilter, Buttons, TLC

VARIABLE part

deviceVars == <<part, engineVars, settingVars, watchdogVars, ledVars, batteryVars, filterVars, buttonVars>>

DeviceInit ==
    /\ part \in {"engine", "settings", "watchdog", "led", "battery", "filter", "button"}
    /\ EngineInit /\ SettingsInit /\ WatchdogInit /\ LedInit /\ BatteryInit /\ FilterInit /\ ButtonInit
    /\ part # "filter" => level = 0 /\ ~powered
    /\ part # "button" => ~down /\ ~zero

DeviceNext ==
    /\ UNCHANGED part
    /\ \/ /\ part = "engine" /\ EngineNext
          /\ UNCHANGED <<settingVars, watchdogVars, ledVars, batteryVars, filterVars, buttonVars>>
       \/ /\ part = "settings" /\ SettingsNext
          /\ UNCHANGED <<engineVars, watchdogVars, ledVars, batteryVars, filterVars, buttonVars>>
       \/ /\ part = "watchdog" /\ WatchdogNext
          /\ UNCHANGED <<engineVars, settingVars, ledVars, batteryVars, filterVars, buttonVars>>
       \/ /\ part = "led" /\ LedNext
          /\ UNCHANGED <<engineVars, settingVars, watchdogVars, batteryVars, filterVars, buttonVars>>
       \/ /\ part = "battery" /\ BatteryNext
          /\ UNCHANGED <<engineVars, settingVars, watchdogVars, ledVars, filterVars, buttonVars>>
       \/ /\ part = "filter" /\ FilterNext
          /\ UNCHANGED <<engineVars, settingVars, watchdogVars, ledVars, batteryVars, buttonVars>>
       \/ /\ part = "button" /\ ButtonsNext
          /\ UNCHANGED <<engineVars, settingVars, watchdogVars, ledVars, batteryVars, filterVars>>

DeviceSpec ==
    /\ DeviceInit /\ [][DeviceNext]_deviceVars
    /\ WF_engineVars(part = "engine" /\ Engine)
    /\ WF_ledVars(part = "led" /\ LedThread) /\ WF_ledVars(part = "led" /\ StatusPoll)
    /\ \A c \in AllCallers : WF_ledVars(part = "led" /\ InSetLed(c))

DeviceTypeOK ==
    /\ EngineTypeOK /\ SettingsTypeOK /\ WatchdogTypeOK
    /\ LedTypeOK /\ BatteryTypeOK /\ FilterTypeOK /\ ButtonsTypeOK
=============================================================================
