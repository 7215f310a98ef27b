-------------------------------- MODULE Packets --------------------------------
(***************************************************************************)
(* Which packet of sensor data the connection thread sends in a turn of    *)
(* its loop, connection/connection.c: orientation whenever the sensor loop *)
(* has a new one, the slower kinds (information, status, running time,     *)
(* magnetometer) when they are due, several of them in one packet if they  *)
(* are due soon.  Times are counted in units in which the look-ahead is 1. *)
(***************************************************************************)
EXTENDS Integers

CONSTANTS
    FastInterval,   \* 100 ms: information, magnetometer
    SlowInterval,   \* 1 s: status, running time
    Room            \* COMPOSITE_MAX_SUB_DATA

Kinds == {"info", "quat", "compact", "status", "mag", "runtime"}
\* SUB_DATA_LEN_*, with the byte of the type.
Size == [info |-> 14, quat |-> 15, compact |-> 14, status |-> 3, mag |-> 15, runtime |-> 9]
Periodic == {"info", "status", "mag", "runtime"}
Interval == [info |-> FastInterval, mag |-> FastInterval,
             status |-> SlowInterval, runtime |-> SlowInterval]

ASSUME PacketsAssumption ==
    /\ FastInterval \in Nat \ {0} /\ SlowInterval \in Nat \ {0} /\ Room \in Nat

VARIABLES
    age,        \* time since last_info_time, last_status_time, ...
    fresh,      \* "quat", "mag", "ids": quat_update_time, mag_update_time, sensor_ids_set
    precise,    \* send_precise_quat
    missed,     \* turns in which a kind was due and something else was sent
    packet      \* the packet of the last turn

packetVars == <<age, fresh, precise, missed, packet>>

PacketsInit ==
    /\ age = [k \in Periodic |-> 0] /\ fresh = {} /\ precise = FALSE
    /\ missed = [k \in Periodic |-> 0] /\ packet = {}

-----------------------------------------------------------------------------
Has(k) == CASE k = "info" -> "ids" \in fresh
            [] k = "mag" -> "mag" \in fresh
            [] OTHER -> TRUE
Due(k) == Has(k) /\ age[k] > Interval[k]
Wanted(k) == Has(k) /\ age[k] > Interval[k] - 1

Bytes(S) ==
    LET Of(k) == IF k \in S THEN Size[k] ELSE 0
    IN  Of("info") + Of("quat") + Of("compact") + Of("status") + Of("mag") + Of("runtime")

\* composite_try_add_due
With(S, k) == IF Wanted(k) /\ Bytes(S \cup {k}) <= Room THEN S \cup {k} ELSE S

SlowKinds(S) == With(With(S, "status"), "runtime")

\* What goes with the orientation.
Primary == IF Wanted("mag") THEN "mag"
           ELSE IF ~precise /\ Wanted("info") THEN "compact" ELSE "quat"

QuatPacket_CompactInforms ==
    IF Primary = "compact" THEN SlowKinds({Primary}) ELSE With(SlowKinds({Primary}), "info")

QuatPacket == With(SlowKinds({Primary}), "info")

\* The packet of a turn, if anything is due.
NextPacket ==
    IF "quat" \in fresh THEN QuatPacket
    ELSE IF Due("mag") THEN SlowKinds({"mag"})
    ELSE IF Due("info") THEN SlowKinds({"info"})
    ELSE IF Due("status") THEN With({"status"}, "runtime")
    ELSE IF Due("runtime") THEN {"runtime"} ELSE {}

Turn ==
    /\ NextPacket # {} /\ packet' = NextPacket
    /\ age' = [k \in Periodic |-> IF k \in packet' THEN 0 ELSE age[k]]
    /\ fresh' = fresh \ ({"quat"} \cup (packet' \cap {"mag"}))
    /\ missed' = [k \in Periodic |-> IF Due(k) /\ k \notin packet' THEN missed[k] + 1 ELSE 0]
    /\ UNCHANGED precise

\* connection_update_sensor_data, _mag and _sensor_ids, in the sensor thread;
\* an update that comes while a packet waits for its slot is overlooked,
\* as if it had come before.
Update ==
    /\ \E f \in {"quat", "mag", "ids"} : fresh' = fresh \cup {f}
    /\ precise' \in BOOLEAN
    /\ UNCHANGED <<age, missed, packet>>

\* A turn takes less time than the unit.
Later ==
    /\ NextPacket = {}
    /\ age' = [k \in Periodic |-> IF age[k] > Interval[k] THEN age[k] ELSE age[k] + 1]
    /\ UNCHANGED <<fresh, precise, missed, packet>>

PacketsNext == Turn \/ Update \/ Later
PacketsSpec == PacketsInit /\ [][PacketsNext]_packetVars

-----------------------------------------------------------------------------
PacketsTypeOK ==
    /\ \A k \in Periodic : age[k] \in 0 .. Interval[k] + 1
    /\ fresh \subseteq {"quat", "mag", "ids"} /\ packet \subseteq Kinds

\* No kind that is due is passed over in two turns running, however often
\* the orientation is sent (connection.c:1128), and a packet fits in the
\* payload of the radio.
NonePassedOver ==
    /\ \A k \in Periodic : missed[k] <= 1
    /\ Bytes(packet) <= Room
=============================================================================
