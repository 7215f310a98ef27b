------------------------------ MODULE BatteryFilter ------------------------------
(***************************************************************************)
(* The battery as the power thread sees it (system/power.c, read_batt_mV   *)
(* of system/battery.c): every turn it reads the charge, decides whether   *)
(* the battery is empty or the tracker plugged in, and feeds the reading   *)
(* into a filter, the mean of the middle of the last readings, which       *)
(* starts again when the charge jumps.  What becomes of the request to     *)
(* switch off is in PowerDown; a dock, which asks for it too, is left out. *)
(*                                                                         *)
(* A unit of charge is one percent.                                        *)
(***************************************************************************)
EXTENDS Integers, SequencesExt

CONSTANTS
    Samples,     \* BATTERY_SAMPLES, 24
    TrimPart,    \* an eighth is cut off either end
    JumpLimit,   \* 10 %: a change that starts the filter again
    LowLimit,    \* 10 %: the battery is low
    Charges,     \* bound: 0 .. the highest charge
    Glitches     \* bound: readings that are wrong

ASSUME FilterAssumption ==
    /\ {Samples, TrimPart, JumpLimit, LowLimit} \subseteq Nat \ {0} /\ Samples > 1
    /\ Charges \subseteq Nat /\ 0 \in Charges /\ Glitches \in Nat

VARIABLES
    level, powered,  \* the battery, and whether the tracker is plugged in
    last, at,        \* last_pptt, last_pptt_index
    samples, average,
    hysteresis, shown,   \* hysteresis_pptt, current_battery_pptt
    batteryLow, inserted, \* battery_low, device_plugged
    offAsked,        \* the battery had the tracker switched off
    zeros, fresh,    \* history: zeros among the readings of the average, and
                     \* whether the filter has started again since boot or a jump
                     \* and is not full
    glitches

filterVars == <<level, powered, last, at, samples, average, hysteresis, shown, batteryLow,
                inserted, offAsked, zeros, fresh, glitches>>

Unknown == -1

FilterInit ==
    /\ level \in Charges /\ powered \in BOOLEAN
    /\ last = [i \in 1 .. Samples - 1 |-> Unknown] /\ at = 1 /\ samples = 0 /\ average = Unknown
    /\ hysteresis = Unknown /\ shown = Unknown /\ batteryLow = FALSE /\ inserted = FALSE
    /\ offAsked = FALSE /\ zeros = 0 /\ fresh = TRUE /\ glitches = 0

\* The battery wears down or is charged, the tracker is plugged in or out.
Drain ==
    /\ level' \in {level - 1, level, level + 1} \cap Charges /\ powered' \in BOOLEAN
    /\ UNCHANGED <<last, at, samples, average, hysteresis, shown, batteryLow, inserted,
                   offAsked, zeros, fresh, glitches>>

-----------------------------------------------------------------------------
(* update_battery                                                          *)

Jumps(r) == average # Unknown /\ (r - average > JumpLimit \/ average - r > JumpLimit)

\* The readings of the average, unknown ones first.
Sorted(r) ==
    SortSeq([i \in 1 .. Samples |->
               IF i = Samples THEN r ELSE IF Jumps(r) THEN Unknown ELSE last[i]], <)

Middle_All(n) == Samples - n + 1 .. Samples
\* The places of the middle three quarters of n readings.
Middle(n) == Samples - (n - n \div TrimPart) + 1 .. Samples - n \div TrimPart

Average(r, n) ==
    LET sorted == Sorted(r)
        known  == {i \in Middle(n) : sorted[i] # Unknown}
    IN IF known = {} THEN r
       ELSE FoldSet(LAMBDA i, sum : sum + sorted[i], 0, known) \div Cardinality(known)

\* It follows at once upwards, and one percent behind downwards.
Follow(mean) ==
    IF mean + 1 < hysteresis THEN mean + 1 ELSE IF mean > hysteresis THEN mean ELSE hysteresis

UpdateBattery(r) ==
    LET n == IF Jumps(r) THEN 1 ELSE IF samples < Samples THEN samples + 1 ELSE samples
    IN /\ samples' = n
       /\ average' = Average(r, n)
       /\ last' = [i \in 1 .. Samples - 1 |->
                     IF i = at THEN r ELSE IF Jumps(r) THEN Unknown ELSE last[i]]
       /\ at' = (at % (Samples - 1)) + 1
       /\ hysteresis' = Follow(average')
       /\ shown' = hysteresis' - 1
       /\ zeros' = Cardinality({i \in 1 .. Samples : Sorted(r)[i] = 0})
       /\ fresh' = (n < Samples)

-----------------------------------------------------------------------------
(* power_thread                                                            *)

NoCharge(r) == (IF average # Unknown THEN average ELSE r) = 0

\* A reading beyond what a battery can have is not of a battery, which is then neither
\* low nor empty; the filter takes it all the same.
PowerTurn(r, available) ==
    /\ offAsked' = (offAsked \/ (available /\ NoCharge(r) /\ ~inserted'))
    /\ IF r # Unknown THEN UpdateBattery(r)
       ELSE UNCHANGED <<last, at, samples, average, hysteresis, shown, zeros, fresh>>
    /\ batteryLow' = IF ~available THEN FALSE
                     ELSE IF shown' = LowLimit THEN batteryLow ELSE shown' < LowLimit
    /\ UNCHANGED <<level, powered>>

Measure == inserted' = powered /\ PowerTurn(level, TRUE) /\ UNCHANGED glitches

\* read_batt_mV fails, or what it reads is wrong.
Glitch ==
    /\ glitches < Glitches /\ glitches' = glitches + 1 /\ inserted' \in BOOLEAN
    /\ \/ PowerTurn(Unknown, FALSE)
       \/ \E r \in Charges, available \in BOOLEAN : PowerTurn(r, available)

FilterNext == Drain \/ Measure \/ Glitch
FilterSpec == FilterInit /\ [][FilterNext]_filterVars

-----------------------------------------------------------------------------
FilterTypeOK ==
    /\ level \in Charges /\ last \in [1 .. Samples - 1 -> Charges \cup {Unknown}]
    /\ at \in 1 .. Samples - 1 /\ samples \in 0 .. Samples /\ average \in Charges \cup {Unknown}
    /\ {batteryLow, inserted, offAsked, fresh, powered} \subseteq BOOLEAN

\* Once the filter is full, readings that are wrong, as many as it cuts off, do not
\* switch the tracker off.
OffConfirmed == [][offAsked' /\ ~offAsked => fresh \/ zeros > Samples \div TrimPart]_filterVars

\* One wrong reading never does: but one that is more than 10 % off starts the filter
\* again and is then all there is of it.
OneReadingHolds == [][offAsked' /\ ~offAsked => zeros > 1]_filterVars

\* "Effectively 100-10000 -> 1-100%" (power.c:602): the charge shown is in range.
ShownInRange == samples > 0 => shown >= 0
=============================================================================
