--------------------------- MODULE CalibrationProofs --------------------------
(***************************************************************************)
(* Proofs about calibration: the request slot and the shared sums of the   *)
(* calibration thread (CalibrationThread) and the table of temperature     *)
(* offsets that two threads fill (TempCal).                                *)
(***************************************************************************)
EXTENDS CalibrationThread, TempCal, FiniteSetTheorems, TLAPS

(* CalibrationThread: who owns the slot, and whose sums these are.         *)

(* In a calibration the slot holds the one that was taken from it, and     *)
(* nobody overwrites a slot that is taken.  Samples of the accelerometer   *)
(* are summed only inside the six-side calibration, which drops them at    *)
(* every way out.                                                          *)
Free == {"startup", "idle", "status"}
Sides == {"pose", "capture", "drop", "solve"}

SlotInv ==
  /\ step \notin Free => requested = doing /\ doing # 0
  /\ "acc" \in fit => step \in Sides

LEMMA CallersKeepSlot == SlotInv /\ CalCallers => SlotInv'
<1> SUFFICES ASSUME SlotInv, CalCallers PROVE SlotInv' OBVIOUS
<1>1. UNCHANGED <<step, doing>> /\ ("acc" \in fit' => "acc" \in fit)
  BY DEF CalCallers, threadVars, UserRequest, BootCheck, RuntimeCheck, AutoCheck, SetAuto,
         UserClear, MagAnnounce, MagStart, OnlineSample
<1>2. requested # 0 => requested' = requested
  BY DEF CalCallers, UserRequest, BootCheck, RuntimeCheck, AutoCheck, SetAuto,
         UserClear, MagAnnounce, MagStart, OnlineSample, Request
<1> QED BY <1>1, <1>2 DEF SlotInv

LEMMA ProcedureKeepsSlot == SlotInv /\ Procedure => SlotInv'
<1> SUFFICES ASSUME SlotInv PROVE Procedure => SlotInv' OBVIOUS
<1>1. CASE Settle
  BY <1>1 DEF Settle, SlotInv, Free, Sides, Go, Leave, BootFailed, Request
<1>2. CASE Retrim BY <1>2 DEF Retrim, SlotInv, Free, Sides, Go, Leave
<1>3. CASE Collect
  <2>1. CASE CollectGyro \/ CollectRuntime
    BY <1>3, <2>1 DEF Collect, CollectGyro, CollectRuntime, SlotInv, Free, Sides, Go
  <2>2. CASE CollectBoot
    BY <1>3, <2>2 DEF Collect, CollectBoot, SlotInv, Free, Sides, Go, BootFailed, Request
  <2> QED BY <1>3, <2>1, <2>2 DEF Collect
<1>4. CASE ApplyBias
  BY <1>4 DEF ApplyBias, ApplyGyro, ApplyOffset, ApplyRuntime, SlotInv, Free, Sides, Go, Leave
<1>5. CASE Restore BY <1>5 DEF Restore, SlotInv, Free, Sides, Go, Leave
<1>6. CASE SixBegin BY <1>6 DEF SixBegin, SlotInv, Free, Sides, MagnetoReset
<1>7. CASE FindPose BY <1>7 DEF FindPose, SlotInv, Free, Sides, Go
<1>8. CASE Capture BY <1>8 DEF Capture, SlotInv, Free, Sides
<1>9. CASE SixDrop BY <1>9 DEF SixDrop, SlotInv, Free, Sides, Go, Leave, MagnetoReset
<1>10. CASE SixSolve BY <1>10 DEF SixSolve, SlotInv, Free, Sides, Go, Leave, MagnetoReset
<1>11. CASE Bias \/ Arm \/ Spin \/ Scale
  BY <1>11 DEF Bias, Arm, Spin, Scale, SlotInv, Free, Sides, Go, Leave
<1> QED BY <1>1, <1>2, <1>3, <1>4, <1>5, <1>6, <1>7, <1>8, <1>9, <1>10, <1>11 DEF Procedure

LEMMA ThreadKeepsSlot == SlotInv /\ CalThread => SlotInv'
<1> SUFFICES ASSUME SlotInv PROVE CalThread => SlotInv' OBVIOUS
<1>1. CASE Startup BY <1>1 DEF Startup, SlotInv, Free, Sides, Go
<1>2. CASE Dispatch BY <1>2 DEF Dispatch, SlotInv, Free, Sides
<1>3. CASE ClearRequest BY <1>3 DEF ClearRequest, SlotInv, Free, Sides, Go
<1>4. CASE ClearStatus BY <1>4 DEF ClearStatus, SlotInv, Free, Sides
<1>5. CASE CalibrateMag
  BY <1>5 DEF CalibrateMag, threadVars, SlotInv, Free, Sides, MagAlready, MagSample, MagFit,
              MagnetoReset
<1>6. CASE OnlineCheck BY <1>6 DEF OnlineCheck, threadVars, SlotInv, Free, Sides
<1> QED BY <1>1, <1>2, <1>3, <1>4, <1>5, <1>6, ProcedureKeepsSlot DEF CalThread

LEMMA SlotAlways == CalSpec => []SlotInv
<1>1. CalInit => SlotInv BY DEF CalInit, SlotInv, Free
<1>2. SlotInv /\ [CalNext]_calVars => SlotInv'
  <2> SUFFICES ASSUME SlotInv, [CalNext]_calVars PROVE SlotInv' OBVIOUS
  <2>1. CASE UNCHANGED calVars BY <2>1 DEF calVars, threadVars, SlotInv
  <2> QED BY <2>1, CallersKeepSlot, ThreadKeepsSlot DEF CalNext
<1> QED BY <1>1, <1>2, PTL DEF CalSpec

\* The console, the boot check, the runtime check and the calibration thread share one
\* slot for a request (sensor_calibration_request): the thread clears only the request it
\* has carried out, none that came since.
THEOREM RequestsAreKept == CalSpec => []ClearsItsOwn
<1>1. SlotInv => ClearsItsOwn BY DEF SlotInv, Free, ClearsItsOwn
<1> QED BY <1>1, SlotAlways, PTL

\* The sums of the ellipsoid fit are shared by the six-side calibration and the
\* magnetometer's: whichever begins, ends or is given up, no samples of the accelerometer
\* are left for the magnetometer's fit.
THEOREM SumsAreNotMixed == CalSpec => []MagFitPure
<1>1. SlotInv => MagFitPure BY DEF SlotInv, Sides, MagFitPure
<1> QED BY <1>1, SlotAlways, PTL

-----------------------------------------------------------------------------
(* TempCal: what the table was computed from.                              *)

(* Each change of the points empties the table or computes it anew.  The   *)
(* value the thread holds from before a change is the one that may still   *)
(* be stored after it.                                                     *)
Fresh(l, now) ==
  /\ l = [valid |-> l.valid, state |-> l.state, version |-> l.version, next |-> l.next,
          entry |-> l.entry]
  /\ l.valid \in BOOLEAN /\ l.entry \in [Entries -> Int] /\ \A i \in Entries : l.entry[i] \in {None, now}

LutInv ==
  /\ change \in Nat
  /\ lut = [valid |-> lut.valid, state |-> lut.state, version |-> lut.version,
            next |-> lut.next, entry |-> lut.entry]
  /\ lut.valid \in BOOLEAN /\ lut.entry \in [Entries -> Int]
  /\ mine = [idx |-> mine.idx, new |-> mine.new, value |-> mine.value]
  /\ mine.value \in Int
  /\ at # "refresh" => \E e : Stale \subseteq {e}
  /\ at \in {"store", "keep"} => mine.value = change \/ Stale = {}

LEMMA FreshLuts ==
  ASSUME NEW n, NEW now \in Nat, NEW l, l.valid \in BOOLEAN,
         l = [valid |-> l.valid, state |-> l.state, version |-> l.version,
              next |-> l.next, entry |-> l.entry]
  PROVE  Fresh(Invalidated(l), now) /\ Fresh(Rebuilt(Invalidated(l), n, now), now)
<1>1. PICK k : k = Invalidated(l) OBVIOUS
<1>2. k = [valid |-> FALSE, state |-> "idle", version |-> l.version, next |-> l.next,
           entry |-> NoEntries]
  BY <1>1 DEF Invalidated
<1>3. NoEntries \in [Entries -> Int] /\ \A i \in Entries : NoEntries[i] = None
  BY DEF NoEntries, None
<1>4. PICK r : r = Rebuilt(k, n, now) OBVIOUS
<1>5. CASE n < MinFit
  <2>1. r = [valid |-> FALSE, state |-> "idle", version |-> l.version, next |-> l.next,
             entry |-> NoEntries]
    BY <1>2, <1>4, <1>5 DEF Rebuilt
  <2>2. Fresh(k, now) /\ Fresh(r, now) BY <1>2, <1>3, <2>1 DEF Fresh
  <2> QED BY <1>1, <1>4, <2>2
<1>6. CASE ~(n < MinFit)
  <2> DEFINE table == [e \in Entries |-> IF e \in Priority THEN now ELSE None]
  <2>1. r = [valid |-> TRUE, state |-> "background", version |-> n, next |-> 0,
             entry |-> table]
    BY <1>4, <1>6 DEF Rebuilt
  <2>2. table \in [Entries -> Int] /\ \A i \in Entries : table[i] \in {None, now}
    BY DEF None
  <2> HIDE DEF table
  <2>3. Fresh(k, now) /\ Fresh(r, now) BY <1>2, <1>3, <2>1, <2>2 DEF Fresh
  <2> QED BY <1>1, <1>4, <2>3
<1> QED BY <1>5, <1>6

(* A step that leaves the table fresh, and the thread alone.               *)
LEMMA FreshKeeps ==
  ASSUME LutInv, change' \in Nat, Fresh(lut', change'), UNCHANGED mine
  PROVE  LutInv'
<1>1. Stale' = {} BY DEF Fresh, Stale
<1> QED BY <1>1 DEF LutInv, Fresh

(* A step that leaves the table and the points alone.                      *)
LEMMA TableKept ==
  ASSUME LutInv, UNCHANGED change, lut'.entry = lut.entry, at # "refresh",
         lut'.valid \in BOOLEAN,
         lut' = [valid |-> lut'.valid, state |-> lut'.state, version |-> lut'.version,
                 next |-> lut'.next, entry |-> lut'.entry],
         UNCHANGED <<at, mine>>
         \/ /\ at' \notin {"store", "keep"} \/ mine'.value = change
            /\ mine' = [idx |-> mine'.idx, new |-> mine'.new, value |-> mine'.value]
            /\ mine'.value \in Int
  PROVE  LutInv'
<1>1. Stale' = Stale BY DEF Stale
<1> QED BY <1>1 DEF LutInv

LEMMA SavePointKeeps == ASSUME LutInv, NEW idx, SavePoint(idx) PROVE Fresh(lut', change') /\ change' \in Nat
<1>1. change' \in Nat /\ lut' \in {Updated(IF idx \in points THEN count ELSE count + 1, change'),
                                   Invalidated(lut)}
  BY DEF SavePoint, LutInv
<1> QED BY <1>1, FreshLuts DEF LutInv, Updated

LEMMA FlushKeeps == LutInv /\ Flush /\ UNCHANGED <<at, mine>> => LutInv'
<1> SUFFICES ASSUME LutInv, Flush, UNCHANGED <<at, mine>> PROVE LutInv' OBVIOUS
<1>1. CASE \E idx \in Buckets : SavePoint(idx) BY <1>1, SavePointKeeps, FreshKeeps
<1>2. CASE UNCHANGED <<points, change, count, lut>> BY <1>2 DEF LutInv, Stale
<1> QED BY <1>1, <1>2 DEF Flush

LEMMA OthersKeepLut == LutInv /\ TCalOthers => LutInv'
<1> SUFFICES ASSUME LutInv PROVE TCalOthers => LutInv' OBVIOUS
<1>1. CASE Feed
  <2>1. Flush \/ UNCHANGED <<points, change, count, lut>> BY <1>1 DEF Feed
  <2>2. Flush BY <2>1 DEF Flush
  <2> QED BY <1>1, <2>2, FlushKeeps DEF Feed
<1>2. CASE Motion
  <2>1. Flush \/ UNCHANGED <<points, change, count, lut>> BY <1>2 DEF Motion
  <2>2. Flush BY <2>1 DEF Flush
  <2> QED BY <1>2, <2>2, FlushKeeps DEF Motion
<1>3. CASE SetAutoCal
  <2>1. Flush BY <1>3 DEF SetAutoCal, Flush
  <2> QED BY <1>3, <2>1, FlushKeeps DEF SetAutoCal
<1>4. CASE ClearPoints
  <2>1. change' \in Nat /\ lut' = Invalidated(lut) /\ UNCHANGED mine
    BY <1>4 DEF ClearPoints, LutInv
  <2>2. Fresh(lut', change') BY <2>1, FreshLuts DEF LutInv
  <2> QED BY <2>1, <2>2, FreshKeeps
<1>5. CASE RemovePoint
  <2>1. change' \in Nat /\ lut' = Rebuilt(Invalidated(lut), count', change') /\ UNCHANGED mine
    BY <1>5 DEF RemovePoint, Updated, LutInv
  <2>2. Fresh(lut', change') BY <2>1, FreshLuts DEF LutInv
  <2> QED BY <2>1, <2>2, FreshKeeps
<1> QED BY <1>1, <1>2, <1>3, <1>4, <1>5 DEF TCalOthers

(* Storing the value adds at most its own entry to those out of date, and  *)
(* none if the value is of the present points.                             *)
LEMMA StoreKeeps ==
  ASSUME LutInv, at \in {"store", "keep"}, lut' = Stored, UNCHANGED change,
         at' \notin {"store", "keep"}, mine'.value \in Int,
         mine' = [idx |-> mine'.idx, new |-> mine'.new, value |-> mine'.value]
  PROVE  LutInv'
<1>1. lut' = [valid |-> lut.valid, state |-> lut.state, version |-> lut.version,
              next |-> lut.next, entry |-> [lut.entry EXCEPT ![mine.idx] = mine.value]]
  BY DEF Stored, LutInv
<1>2. lut'.entry \in [Entries -> Int]
  <2>1. lut.entry \in [Entries -> Int] /\ mine.value \in Int BY DEF LutInv
  <2>2. [lut.entry EXCEPT ![mine.idx] = mine.value] \in [Entries -> Int] BY <2>1
  <2> QED BY <1>1, <2>2
<1>3. \A e \in Entries : lut'.entry[e] = lut.entry[e] \/ (e = mine.idx /\ lut'.entry[e] = mine.value)
  BY <1>1 DEF LutInv
<1>4. \E e : Stale' \subseteq {e}
  <2>1. CASE mine.value = change
    <3>1. Stale' \subseteq Stale BY <1>3, <2>1 DEF Stale
    <3> QED BY <3>1 DEF LutInv
  <2>2. CASE Stale = {}
    <3>1. Stale' \subseteq {mine.idx} BY <1>3, <2>2 DEF Stale
    <3> QED BY <3>1
  <2> QED BY <2>1, <2>2 DEF LutInv
<1> QED BY <1>1, <1>2, <1>4 DEF LutInv

LEMMA ThreadKeepsLut == LutInv /\ TCalThread => LutInv'
<1> SUFFICES ASSUME LutInv PROVE TCalThread => LutInv' OBVIOUS
<1>1. change \in Nat /\ Nothing.value \in Int BY DEF LutInv, Nothing, None
<1>2. CASE Measure \/ CheckNew \/ CountNew
  BY <1>2, TableKept DEF Measure, CheckNew, CountNew, LutInv
<1>3. CASE WritePoint BY <1>3 DEF WritePoint, LutInv
<1>4. CASE Refresh
  <2>1. Fresh(lut', change') BY <1>4, FreshLuts DEF Refresh, LutInv
  <2> QED BY <1>4, <2>1, FreshKeeps DEF Refresh, LutInv
<1>5. CASE Begin
  <2>1. CASE count < MinFit
    <3>1. /\ lut' = [lut EXCEPT !.valid = FALSE, !.state = "idle"] /\ change' = change
          /\ at = "begin" /\ at' = "free" /\ mine' = Nothing
      BY <1>5, <2>1 DEF Begin
    <3>2. lut' = [valid |-> FALSE, state |-> "idle", version |-> lut.version,
                  next |-> lut.next, entry |-> lut.entry]
      BY <3>1 DEF LutInv
    <3>3. mine' = [idx |-> mine'.idx, new |-> mine'.new, value |-> mine'.value]
          /\ mine'.value \in Int
      BY <1>1, <3>1 DEF Nothing
    <3> QED BY <3>1, <3>2, <3>3, TableKept
  <2>2. CASE ~(count < MinFit)
    <3>1. NoEntries \in [Entries -> Int] /\ \A i \in Entries : NoEntries[i] = None
      BY DEF NoEntries, None
    <3>2. lut' = [valid |-> FALSE, state |-> "priority", version |-> count,
                  next |-> lut.next, entry |-> NoEntries]
          /\ at' = "build" /\ change' = change
          /\ mine' = [idx |-> Smallest(Priority), new |-> FALSE, value |-> None]
      BY <1>5, <2>2 DEF Begin, Nothing
    <3>3. Stale' = {} BY <3>1, <3>2 DEF Stale
    <3> QED BY <1>1, <3>1, <3>2, <3>3 DEF LutInv, None
  <2> QED BY <2>1, <2>2
<1>6. ASSUME NEW back, Compute(back), at # "refresh" PROVE LutInv'
  <2>1. PICK bias \in Lookup \ {None} : mine' = [mine EXCEPT !.value = bias]
    BY <1>6 DEF Compute
  <2>2. bias = change BY <2>1 DEF Lookup, Fitted
  <2>3. mine' = [idx |-> mine.idx, new |-> mine.new, value |-> change]
    BY <2>1, <2>2 DEF LutInv
  <2> QED BY <1>1, <1>6, <2>3, TableKept DEF Compute, LutInv
<1>7. CASE BuildEntry \/ ComputeNext BY <1>6, <1>7 DEF BuildEntry, ComputeNext
<1>8. CASE BuildNext BY <1>8, StoreKeeps DEF BuildNext, LutInv
<1>9. CASE StoreNext BY <1>1, <1>9, StoreKeeps DEF StoreNext, Nothing
<1>10. CASE BuildSkip BY <1>10, TableKept DEF BuildSkip, LutInv
<1>11. CASE BuildDone \/ SkipNext
  BY <1>1, <1>11, TableKept DEF BuildDone, SkipNext, LutInv, Nothing
<1>12. CASE Outdated \/ Complete BY <1>12, TableKept DEF Outdated, Complete, LutInv
<1>13. CASE TakeNext BY <1>13, TableKept DEF TakeNext, LutInv
<1> QED BY <1>2, <1>3, <1>4, <1>5, <1>7, <1>8, <1>9, <1>10, <1>11, <1>12, <1>13 DEF TCalThread

\* For any temperatures and any order of additions, removals and blends, by a thread that
\* may preempt the one that builds the table: of a table in use at most one entry is out
\* of date.
THEOREM TableIsTrusted == TCalSpec => []OneEntryStale
<1>1. TCalInit => LutInv
  <2> SUFFICES ASSUME TCalInit PROVE LutInv OBVIOUS
  <2>1. change = 0 /\ lut = Idle /\ mine = Nothing /\ at = "begin" BY DEF TCalInit
  <2>2. NoEntries \in [Entries -> Int] /\ \A i \in Entries : NoEntries[i] = None
    BY DEF NoEntries, None
  <2>3. Stale = {} BY <2>1, <2>2 DEF Stale, Idle
  <2> QED BY <2>1, <2>2, <2>3 DEF LutInv, Idle, Nothing, None
<1>2. LutInv /\ [TCalNext]_tcalVars => LutInv'
  <2> SUFFICES ASSUME LutInv, [TCalNext]_tcalVars PROVE LutInv' OBVIOUS
  <2>1. CASE UNCHANGED tcalVars BY <2>1 DEF tcalVars, LutInv, Stale
  <2> QED BY <2>1, OthersKeepLut, ThreadKeepsLut DEF TCalNext
<1>3. LutInv => OneEntryStale
  <2> SUFFICES ASSUME LutInv, at # "refresh" PROVE Cardinality(Stale) <= 1
    BY DEF OneEntryStale
  <2>1. PICK e : Stale \subseteq {e} BY DEF LutInv
  <2>2. IsFiniteSet({e}) /\ Cardinality({e}) = 1 BY FS_Singleton
  <2>3. Cardinality(Stale) <= Cardinality({e}) BY <2>1, <2>2, FS_Subset
  <2> QED BY <2>2, <2>3
<1> QED BY <1>1, <1>2, <1>3, PTL DEF TCalSpec
=============================================================================
