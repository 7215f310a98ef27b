----------------------------- MODULE BatteryTracker -----------------------------
(***************************************************************************)
(* The battery tracker (system/battery_tracker.c): while the battery is    *)
(* discharged it credits the active time spent in every 5 % of charge to   *)
(* an interval in the flash, and when it is charged it makes a discharge   *)
(* curve from the intervals.  The power thread feeds it, anyone may ask    *)
(* for an estimate; what it retains survives a reboot.                     *)
(*                                                                         *)
(* Charge is counted in percent and active time in the five minutes an     *)
(* interval must last; a longer time than TimeBound is not told apart.     *)
(* Voltages and the minimal and maximal times are left out.                *)
(***************************************************************************)
EXTENDS Integers, Functions, FiniteSetsExt

CONSTANTS
    FullCharge,    \* the charge the battery starts with
    BatteryEvents, \* bound: charges, reboots and jumps of the charge
    TimeBound      \* bound of the time of an interval

ASSUME BatteryAssumption ==
    /\ FullCharge \in 1 .. 100 /\ BatteryEvents \in Nat /\ TimeBound \in Nat \ {0}

VARIABLES
    charge, plugged,   \* what the power thread measures
    high, low,         \* max_battery_pptt, min_battery_pptt
    mark,              \* battery_pptt_saved
    spent,             \* battery_runtime_sum - battery_runtime_saved
    first, recent,     \* last_saved_pptt, and whether it is a minute old at most
    interval,          \* the flash: cycles and their summed time
    curve,             \* battery_pptt_curve, 0 where it is not known
    estimate, known,   \* the cached estimate and its bit of valid_result
    asking,            \* a thread is computing the estimate
    credited,          \* history: intervals credited since the tracker was reset
    events             \* bound

batteryVars == <<charge, plugged, high, low, mark, spent, first, recent, interval,
                 curve, estimate, known, asking, credited, events>>

Step == 5         \* percent of an interval
Intervals == 0 .. 18
Ceil(p) == ((p + Step - 1) \div Step) * Step
IntervalOf(p) == IF Ceil(p) \div Step > 18 THEN 18 ELSE Ceil(p) \div Step

BatteryInit ==
    /\ charge = FullCharge /\ plugged = FALSE
    /\ high = -1 /\ low = -1 /\ mark = -1 /\ spent = 0
    /\ first = -1 /\ recent = FALSE
    /\ interval = [i \in Intervals |-> [cycles |-> 0, time |-> 0]]
    /\ curve = [i \in 0 .. 17 |-> 0]
    /\ estimate = 0 /\ known = FALSE /\ asking = FALSE
    /\ credited = [i \in Intervals |-> 0] /\ events = 0

TrackerValid == high \in 0 .. 100

-----------------------------------------------------------------------------
(* The curve and the estimate                                              *)

Known(store) == {i \in Intervals : store[i].cycles > 0}
MeanTime(store, i) == store[i].time \div store[i].cycles
TotalTime(store) == MapThenSumSet(LAMBDA i : MeanTime(store, i), Known(store))

NewCurve ==
    LET from == Min(Known(interval))
        to == Max(Known(interval))
        mean == TotalTime(interval) \div Cardinality(Known(interval))
        Time(i) == IF i \in Known(interval) /\ MeanTime(interval, i) # 0
                   THEN MeanTime(interval, i) ELSE mean
        all == TotalTime(interval) + mean * (to + 1 - from - Cardinality(Known(interval)))
    IN [i \in 0 .. 17 |->
          IF i < from \/ i >= to THEN 0
          ELSE (MapThenSumSet(Time, from .. i) * ((to + 1 - from) * Step)) \div all + from * Step]

UpdateCurve == curve' = IF Cardinality(Known(interval)) < 2 THEN curve ELSE NewCurve

\* The charge shown for a charge measured.
Below(i) == IF i \in 1 .. 18 /\ curve[i - 1] # 0 THEN curve[i - 1] ELSE i * Step
Above(i) == IF i < 18 /\ curve[i] # 0 THEN curve[i] ELSE (i + 1) * Step
Applied(p) ==
    LET i == p \div Step
    IN IF Above(i) < Below(i) THEN p
       ELSE ((p % Step) * (Above(i) - Below(i))) \div Step + Below(i)

Estimate(store) ==
    LET n == Cardinality(Known(store))
    IN IF n = 0 THEN 0 ELSE TotalTime(store) + (TotalTime(store) * (20 - n)) \div n

\* A thread without a valid estimate reads the intervals ...
Ask ==
    /\ ~asking /\ ~known /\ estimate' = Estimate(interval)
    /\ asking' = (Known(interval) # {})
    /\ UNCHANGED <<charge, plugged, high, low, mark, spent, first, recent, interval,
                   curve, known, credited, events>>

\* ... and then marks it as valid.
Answered ==
    /\ asking /\ asking' = FALSE /\ known' = TRUE
    /\ UNCHANGED <<charge, plugged, high, low, mark, spent, first, recent, interval,
                   curve, estimate, credited, events>>

-----------------------------------------------------------------------------
(* sys_update_battery_tracker; t is the active time since the last call    *)

Longer(t) == IF spent + t > TimeBound THEN TimeBound ELSE spent + t

ResetTracker(p) ==
    /\ high' = p /\ low' = p /\ mark' = (IF p < 0 THEN 0 ELSE Ceil(p)) /\ spent' = 0
    /\ credited' = [i \in Intervals |-> 0]

\* Saved only when the tracker was active for five minutes of it.
Credit(i, time) ==
    IF time < 1 THEN UNCHANGED <<interval, known, credited>>
    ELSE /\ interval' = [interval EXCEPT ![i] = [cycles |-> @.cycles + 1, time |-> @.time + time]]
         /\ known' = FALSE
         /\ credited' = [credited EXCEPT ![i] = @ + 1]

Discharged(p, t) ==
    /\ low' = (IF p < low THEN p ELSE low) /\ UNCHANGED high
    /\ IF p <= high - 3 /\ p <= mark - Step
       THEN /\ mark' = mark - Step /\ spent' = 0
            /\ IF p <= high - 8 THEN Credit(IntervalOf(p), Longer(t))
               ELSE UNCHANGED <<interval, known, credited>>
       ELSE spent' = Longer(t) /\ UNCHANGED <<mark, interval, known, credited>>
    /\ UNCHANGED curve

\* The charge fell while the tracker was off.
FellUnseen_Ignored(p) == FALSE
FellUnseen(p) == p < low - 1
Rose(p) == p > low + 1
FellRapidly(p) == first # -1 /\ p < first - 1 /\ recent /\ ~Rose(p)

Unplugged(p, t) ==
    /\ LET fresh == first = -1
           rapid == TrackerValid /\ ~FellUnseen(p) /\ ~Rose(p) /\ FellRapidly(p)
       IN /\ first' = (IF fresh \/ rapid THEN p ELSE first)
          /\ recent' = (fresh \/ rapid \/ (recent /\ t = 0))
    /\ IF ~TrackerValid \/ FellUnseen(p) \/ FellRapidly(p)
       THEN ResetTracker(p) /\ UNCHANGED <<interval, known, curve>>
       ELSE IF Rose(p)
       THEN ResetTracker(p) /\ UpdateCurve /\ UNCHANGED <<interval, known>>
       ELSE Discharged(p, t)

Plugged ==
    /\ first' = -1 /\ UNCHANGED <<recent, interval, known>>
    /\ IF TrackerValid
       THEN ResetTracker(-1) /\ UpdateCurve
       ELSE UNCHANGED <<high, low, mark, spent, credited, curve>>

\* The power thread measures, with the charge unchanged or a little lower.
Update ==
    /\ \E p \in {charge, charge - 1} \cap Nat, t \in 0 .. 1 :
          /\ charge' = p
          /\ IF plugged THEN Plugged ELSE Unplugged(p, t)
    /\ UNCHANGED <<plugged, estimate, asking, events>>

-----------------------------------------------------------------------------
(* The battery                                                             *)

BatteryEvent == events < BatteryEvents /\ events' = events + 1

Plug ==
    /\ BatteryEvent /\ plugged' = ~plugged
    /\ UNCHANGED <<charge, high, low, mark, spent, first, recent, interval, curve,
                   estimate, known, asking, credited>>

\* Charged without an indicator, or discharged while the tracker was off.
Jump ==
    /\ BatteryEvent /\ \E p \in 0 .. FullCharge : charge' = p
    /\ UNCHANGED <<plugged, high, low, mark, spent, first, recent, interval, curve,
                   estimate, known, asking, credited>>

\* What is not retained starts again.
Reboot ==
    /\ BatteryEvent
    /\ first' = -1 /\ recent' = FALSE /\ estimate' = 0 /\ known' = FALSE /\ asking' = FALSE
    /\ UNCHANGED <<charge, plugged, high, low, mark, spent, interval, curve, credited>>

\* sys_reset_battery_tracker, the second time it is asked for.
ResetAll ==
    /\ BatteryEvent /\ ResetTracker(-1)
    /\ interval' = [i \in Intervals |-> [cycles |-> 0, time |-> 0]]
    /\ curve' = [i \in 0 .. 17 |-> 0] /\ known' = FALSE
    /\ UNCHANGED <<charge, plugged, first, recent, estimate, asking>>

BatteryNext == Update \/ Ask \/ Answered \/ Plug \/ Jump \/ Reboot \/ ResetAll
BatterySpec == BatteryInit /\ [][BatteryNext]_batteryVars

-----------------------------------------------------------------------------
BatteryTypeOK ==
    /\ charge \in 0 .. FullCharge /\ {high, low, first} \subseteq -1 .. FullCharge
    /\ mark \in -Step .. 100 /\ spent \in 0 .. TimeBound
    /\ {plugged, recent, known, asking} \subseteq BOOLEAN
    /\ \A i \in Intervals : interval[i].time >= interval[i].cycles
    /\ events \in 0 .. BatteryEvents

\* While the battery is discharged, through reboots, plugging and jumps of the
\* charge, no interval is credited twice: each counts one pass through its 5 %.
IntervalOnce == \A i \in Intervals : credited[i] <= 1

\* A higher charge is never shown as a lower one, whatever was credited.
CurveRises == \A p \in 0 .. FullCharge - 1 : Applied(p) <= Applied(p + 1)

\* A valid estimate is the one of the intervals in the flash.
EstimateFresh == known => estimate = Estimate(interval)
=============================================================================
