------------------------------- MODULE TempCal -------------------------------
(***************************************************************************)
(* The temperature curve of the gyroscope bias, sensor/calibration.c: the  *)
(* points, the accumulator that adds points while the tracker rests, and   *)
(* the table (LUT) that is computed from the points entry by entry, first  *)
(* around the present temperature, then in the background.                 *)
(*                                                                         *)
(* The sensor thread (priority 7) and the console (6) preempt the          *)
(* calibration thread (8) anywhere: their operations are single steps,     *)
(* those of the calibration thread are cut where it reads and writes what  *)
(* they change.  A bias is abstracted to the state of the points it was    *)
(* computed from, a number that grows with every change of a point.        *)
(***************************************************************************)
EXTENDS Integers, FiniteSets

CONSTANTS
    Buckets,       \* slots of tempCalPoints
    Size,          \* entries of the table
    Priority,      \* the entries around the present temperature
    MinFit,        \* MLS_MIN_POINTS_FOR_FIT
    MinSamples,    \* TCAL_ACCUM_MIN_SAMPLES
    MaxChanges     \* bound: changes of points

ASSUME TempCalAssumption ==
    /\ {Size, MinFit, MinSamples, MaxChanges} \subseteq Nat
    /\ Priority # {} /\ Priority \subseteq 0 .. Size - 1

VARIABLES
    points,      \* the buckets with a point
    change,      \* how often the points have changed
    count,       \* tempCalState.count
    lut,         \* mls_lut
    samples,     \* tcal_accum.sample_count, 0 if it is not active
    autoCal,     \* tcal_auto_calibration_enabled
    at,          \* where the calibration thread stands
    mine         \* its local variables

tcalVars == <<points, change, count, lut, samples, autoCal, at, mine>>

None == -1
Entries == 0 .. Size - 1
NoEntries == [e \in Entries |-> None]
Idle == [valid |-> FALSE, state |-> "idle", version |-> 0, next |-> 0,
         entry |-> NoEntries]
Nothing == [idx |-> 0, new |-> FALSE, value |-> None]

TCalInit ==
    /\ points \in SUBSET Buckets /\ count = Cardinality(points)
    /\ change = 0 /\ lut = Idle /\ samples = 0 /\ autoCal = FALSE
    /\ at = "begin" /\ mine = Nothing

-----------------------------------------------------------------------------
(* sensor_tcal_cache_invalidate                                            *)
Invalidated_EntriesKept(l) == [l EXCEPT !.valid = FALSE, !.state = "idle"]

Invalidated(l) == [l EXCEPT !.valid = FALSE, !.state = "idle", !.entry = NoEntries]

\* sensor_tcal_build_lut_priority, run to its end: too few points switch the
\* table off.
Rebuilt(l, n, now) ==
    IF n < MinFit THEN [l EXCEPT !.valid = FALSE, !.state = "idle"]
    ELSE [valid |-> TRUE, state |-> "background", version |-> n, next |-> 0,
          entry |-> [e \in Entries |-> IF e \in Priority THEN now ELSE None]]

\* update_tcal_state; the copies in flash follow (system.c).
Updated(n, now) == Rebuilt(Invalidated(lut), n, now)

(* tcal_save_point: a new point, or a blend with the old one.  A blend that *)
(* changes little only invalidates the table.                               *)
SavePoint(idx) ==
    LET n == IF idx \in points THEN count ELSE count + 1 IN
    /\ change < MaxChanges /\ change' = change + 1
    /\ points' = points \cup {idx} /\ count' = n
    /\ \/ lut' = Updated(n, change')
       \/ idx \in points /\ lut' = Invalidated(lut)

\* tcal_accum_flush: the average is saved in its bucket, or lies in none.
Flush ==
    \/ \E idx \in Buckets : SavePoint(idx)
    \/ UNCHANGED <<points, change, count, lut>>

\* sensor_tcal_feed_continuous_sample, for each sample of the sensor loop.
Feed ==
    /\ autoCal
    /\ \/ samples' = 0 /\ UNCHANGED <<points, change, count, lut>>
       \/ /\ samples < MinSamples /\ samples' = samples + 1
          /\ UNCHANGED <<points, change, count, lut>>
       \/ samples + 1 >= MinSamples /\ Flush /\ samples' = 0
    /\ UNCHANGED <<autoCal, at, mine>>

\* sensor_tcal_continuous_motion_detected
Motion ==
    /\ samples > 0 /\ samples' = 0
    /\ IF samples >= MinSamples THEN Flush ELSE UNCHANGED <<points, change, count, lut>>
    /\ UNCHANGED <<autoCal, at, mine>>

SetAutoCal ==
    /\ autoCal' = ~autoCal
    /\ samples' = IF autoCal' THEN samples ELSE 0
    /\ UNCHANGED <<points, change, count, lut, at, mine>>

(* Console: tcal clear and tcal remove, refused while a calibration is     *)
(* asked for; the thread may still be building the table.                  *)
Calibrating == at \in {"check", "count", "write", "refresh"}

ClearPoints ==
    /\ ~Calibrating /\ change < MaxChanges /\ change' = change + 1
    /\ points' = {} /\ count' = 0 /\ lut' = Invalidated(lut) /\ samples' = 0
    /\ UNCHANGED <<autoCal, at, mine>>

RemovePoint ==
    /\ ~Calibrating /\ change < MaxChanges /\ change' = change + 1
    /\ \E idx \in points : points' = points \ {idx}
    /\ count' = Cardinality(points') /\ lut' = Updated(count', change')
    /\ UNCHANGED <<samples, autoCal, at, mine>>

-----------------------------------------------------------------------------
(* The calibration thread.                                                 *)

\* The end of sensor_calibrate_imu with a point to save.
Measure ==
    /\ at = "free" /\ autoCal
    /\ \E idx \in Buckets : mine' = [mine EXCEPT !.idx = idx]
    /\ at' = "check"
    /\ UNCHANGED <<points, change, count, lut, samples, autoCal>>
CheckNew ==
    /\ at = "check" /\ at' = "count"
    /\ mine' = [mine EXCEPT !.new = mine.idx \notin points]
    /\ UNCHANGED <<points, change, count, lut, samples, autoCal>>
CountNew ==
    /\ at = "count" /\ at' = "write"
    /\ count' = IF mine.new THEN count + 1 ELSE count
    /\ UNCHANGED <<points, change, lut, samples, autoCal, mine>>
WritePoint ==
    /\ at = "write" /\ at' = "refresh"
    /\ change < MaxChanges /\ change' = change + 1
    /\ points' = points \cup {mine.idx}
    /\ UNCHANGED <<count, lut, samples, autoCal, mine>>
Refresh ==
    /\ at = "refresh" /\ at' = "begin" /\ lut' = Invalidated(lut)
    /\ UNCHANGED <<points, change, count, samples, autoCal, mine>>

\* sensor_tcal_build_lut_priority, at boot and after a manual calibration.
Smallest(S) == CHOOSE e \in S : \A f \in S : e <= f
Begin ==
    /\ at = "begin"
    /\ IF count < MinFit
       THEN /\ lut' = [lut EXCEPT !.valid = FALSE, !.state = "idle"]
            /\ at' = "free" /\ mine' = Nothing
       ELSE /\ lut' = [valid |-> FALSE, state |-> "priority", version |-> count,
                       next |-> lut.next, entry |-> NoEntries]
            /\ at' = "build" /\ mine' = [Nothing EXCEPT !.idx = Smallest(Priority)]
    /\ UNCHANGED <<points, change, count, samples, autoCal>>

(* sensor_tcal_mls_lookup: the bias is a fit to the points near enough to   *)
(* the temperature or, if there are none, to those at the edge of the       *)
(* curve; it fails when no point is counted or none is there.               *)
Near == SUBSET points
Edge == points
Fitted(used) == IF used = {} THEN None ELSE change
Lookup == IF count < 1 THEN {None}
          ELSE {Fitted(IF near = {} THEN Edge ELSE near) : near \in Near}

\* sensor_tcal_lut_compute_entry looks the bias up, then stores it.
Compute(back) ==
    /\ lut.entry[mine.idx] = None
    /\ \E bias \in Lookup \ {None} : mine' = [mine EXCEPT !.value = bias]
    /\ at' = back
    /\ UNCHANGED <<points, change, count, lut, samples, autoCal>>
SkippedEntry == lut.entry[mine.idx] # None \/ None \in Lookup
Stored == [lut EXCEPT !.entry[mine.idx] = mine.value]

BuildEntry == at = "build" /\ mine.idx \in Priority /\ Compute("store")
BuildNext ==
    /\ at = "store" /\ lut' = Stored /\ at' = "build"
    /\ mine' = [mine EXCEPT !.idx = mine.idx + 1]
    /\ UNCHANGED <<points, change, count, samples, autoCal>>
BuildSkip ==
    /\ at = "build" /\ mine.idx \in Priority
    /\ SkippedEntry
    /\ mine' = [mine EXCEPT !.idx = mine.idx + 1]
    /\ UNCHANGED <<points, change, count, lut, samples, autoCal, at>>
BuildDone ==
    /\ at = "build" /\ mine.idx \notin Priority
    /\ lut' = [lut EXCEPT !.valid = TRUE, !.next = 0, !.state = "background"]
    /\ at' = "free" /\ mine' = Nothing
    /\ UNCHANGED <<points, change, count, samples, autoCal>>

(* sensor_tcal_build_lut_continue, once per turn of the thread's loop.     *)
Outdated ==
    /\ at = "free" /\ lut.state = "background" /\ lut.version # count
    /\ lut' = [lut EXCEPT !.valid = FALSE, !.state = "idle"]
    /\ UNCHANGED <<points, change, count, samples, autoCal, at, mine>>
TakeNext ==
    /\ at = "free" /\ lut.state = "background" /\ lut.version = count
    /\ lut.next < Size
    /\ lut' = [lut EXCEPT !.next = lut.next + 1]
    /\ at' = "entry" /\ mine' = [mine EXCEPT !.idx = lut.next]
    /\ UNCHANGED <<points, change, count, samples, autoCal>>
ComputeNext == at = "entry" /\ Compute("keep")
SkipNext ==
    /\ at = "entry" /\ SkippedEntry
    /\ at' = "free" /\ mine' = Nothing
    /\ UNCHANGED <<points, change, count, lut, samples, autoCal>>
StoreNext ==
    /\ at = "keep" /\ lut' = Stored /\ at' = "free" /\ mine' = Nothing
    /\ UNCHANGED <<points, change, count, samples, autoCal>>
Complete ==
    /\ at = "free" /\ lut.state = "background" /\ lut.version = count
    /\ lut.next = Size
    /\ lut' = [lut EXCEPT !.state = "complete"]
    /\ UNCHANGED <<points, change, count, samples, autoCal, at, mine>>

-----------------------------------------------------------------------------
TCalThread ==
    \/ Measure \/ CheckNew \/ CountNew \/ WritePoint \/ Refresh
    \/ Begin \/ BuildEntry \/ BuildNext \/ BuildSkip \/ BuildDone
    \/ Outdated \/ TakeNext \/ ComputeNext \/ SkipNext \/ StoreNext \/ Complete
TCalOthers == Feed \/ Motion \/ SetAutoCal \/ ClearPoints \/ RemovePoint
TCalNext == TCalThread \/ TCalOthers
TCalSpec == TCalInit /\ [][TCalNext]_tcalVars

-----------------------------------------------------------------------------
TCalTypeOK ==
    /\ points \subseteq Buckets /\ change \in 0 .. MaxChanges
    /\ count \in Nat /\ samples \in 0 .. MinSamples /\ autoCal \in BOOLEAN
    /\ lut.state \in {"idle", "priority", "background", "complete"}
    /\ lut.entry \in [Entries -> None .. MaxChanges]
    /\ lut.next \in 0 .. Size

\* What sensor_tcal_lut_lookup would use although the points have changed.
Stale == {e \in Entries : lut.entry[e] \notin {None, change}}
InUse == lut.valid /\ lut.version = count

\* The table is trusted by the number of points it was built from
\* (calibration.c:5492), which a blend does not change, and the thread that
\* builds it can be preempted by one that changes the points.  Still, no
\* more than the one entry that was being computed then is out of date.
OneEntryStale == InUse /\ at # "refresh" => Cardinality(Stale) <= 1

\* The count is the number of points.
CountIsPoints ==
    at \notin {"count", "write"} => count = Cardinality(points)

\* No entry in use is out of date.
LutFresh == InUse /\ at # "refresh" => Stale = {}
=============================================================================
