------------------------------- MODULE TimeSync -------------------------------
(***************************************************************************)
(* The tracker's estimate of the receiver's clock, connection/esb.c: each  *)
(* PONG carries the receiver's time when the PING reached it; the radio    *)
(* interrupt compares it with the tracker's time when the acknowledgement  *)
(* came, trusts it if the round trip was short, and filters.  From how the *)
(* samples drift it also estimates how much faster the receiver's clock    *)
(* runs, and the time in use is corrected by that since the last PONG.     *)
(*                                                                         *)
(* The two crystals are taken to run alike here: the drift seen is that of *)
(* the round trips, which the correction carries on.  The receiver is      *)
(* external: it may answer a PING late, with the acknowledgement of        *)
(* another packet, and may restart, its clock far from where it was.       *)
(***************************************************************************)
EXTENDS Integers, Sequences

CONSTANTS
    HistorySize,    \* PING_HISTORY_SIZE
    Counters,       \* 256, ping_counter wraps
    FirstMinRtt,    \* 10, g_min_rtt_ticks at the start
    MinRttCeiling,  \* MIN_RTT_CEILING
    MinRttAgeLimit, \* MIN_RTT_AGE_LIMIT
    RttFactor,      \* 4
    RttFloor,       \* 1000 us
    WarmUp,         \* SYNC_WARM_UP_COUNT
    Jump,           \* 32000 ticks
    Billion,        \* the unit of the skew, g_clock_skew_ppb
    Second,         \* 32768 ticks, the shortest time a skew is measured over
    RefRefresh,     \* SKEW_REF_REFRESH_TICKS
    TickWrap,       \* 2^32, differences of ticks are uint32_t
    SyncTimeout,    \* TIME_SYNC_TIMEOUT_MS
    MaxTime,        \* bound: ticks
    MaxPings        \* bound: PINGs

ASSUME TimeSyncAssumption ==
    /\ {HistorySize, Counters, FirstMinRtt, RttFactor, RttFloor, Jump,
        Billion, Second, TickWrap} \subseteq Nat \ {0}
    /\ {MinRttCeiling, MinRttAgeLimit, WarmUp, RefRefresh, SyncTimeout, MaxTime, MaxPings} \subseteq Nat
    /\ HistorySize < Counters
    /\ \A rtt \in {FirstMinRtt, MinRttCeiling} : RttFactor * rtt < Jump
    /\ RttFloor < Jump

VARIABLES
    now,        \* the tracker's clock
    ahead,      \* what the receiver's clock is ahead of it
    sender,     \* pings sent, and whether esb_write is between its two records
    history,    \* ping_history and ping_history_idx
    air,        \* PINGs on the way, and answers the receiver holds
    pong,       \* a PONG the interrupt has received, not yet handled
    sync,       \* what the estimate consists of
    moved       \* "yes": the receiver restarted since the estimate was begun,
                \* "missed": and its PONGs did not look like a jump

timeVars == <<now, ahead, sender, history, air, pong, sync, moved>>

Entries == 0 .. HistorySize - 1
NoPong == [ctr |-> Counters, theirs |-> 0, ours |-> 0]
Unsynced == [synced |-> FALSE, begun |-> FALSE, at |-> 0, local |-> 0, offset |-> 0,
             ref |-> 0, refAt |-> 0, skew |-> 0,
             minRtt |-> FirstMinRtt, age |-> 0, count |-> 0]
Bigger(a, b) == IF a > b THEN a ELSE b
Smaller(a, b) == IF a < b THEN a ELSE b
Magnitude(n) == IF n < 0 THEN -n ELSE n
\* Division in C rounds towards zero.
Quotient(n, d) == IF n < 0 THEN -((-n) \div d) ELSE n \div d

TimeInit ==
    /\ now = 1 /\ ahead = 2 * Jump
    /\ sender = [pings |-> 0, stamping |-> FALSE]
    /\ history = [idx |-> 0, entry |-> [i \in Entries |-> [ctr |-> 0, ticks |-> 0]]]
    /\ air = [pings |-> {}, answers |-> {}]
    /\ pong = NoPong /\ sync = Unsynced /\ moved = "no"

-----------------------------------------------------------------------------
Tick ==
    /\ now < MaxTime /\ ~sender.stamping /\ now' = now + 1
    /\ UNCHANGED <<ahead, sender, history, air, pong, sync, moved>>

(* esb_write of a PING: its counter is recorded when it is queued, and the  *)
(* radio may send it at once; its time is recorded after that.  Nothing is  *)
(* under way for as long as the counter takes to come round again.          *)
QueuePing ==
    /\ sender.pings < MaxPings /\ ~sender.stamping
    /\ LET c == sender.pings % Counters IN
         /\ history' = [history EXCEPT !.entry[history.idx].ctr = c]
         /\ air' = [pings |-> air.pings \cup {c},
                    answers |-> {a \in air.answers : a.ctr # c}]
         /\ pong.ctr # c
    /\ sender' = [pings |-> sender.pings + 1, stamping |-> TRUE]
    /\ UNCHANGED <<now, ahead, pong, sync, moved>>
StampPing ==
    /\ sender.stamping /\ sender' = [sender EXCEPT !.stamping = FALSE]
    /\ history' = [idx |-> (history.idx + 1) % HistorySize,
                   entry |-> [history.entry EXCEPT ![history.idx].ticks = now]]
    /\ UNCHANGED <<now, ahead, air, pong, sync, moved>>

(* The receiver.                                                            *)
PingHeard ==
    /\ \E c \in air.pings :
         air' = [pings |-> air.pings \ {c},
                 answers |-> air.answers \cup {[ctr |-> c, theirs |-> now + ahead]}]
    /\ UNCHANGED <<now, ahead, sender, history, pong, sync, moved>>
PingLost ==
    /\ \E c \in air.pings : air' = [air EXCEPT !.pings = air.pings \ {c}]
    /\ UNCHANGED <<now, ahead, sender, history, pong, sync, moved>>
ReceiverRestarts ==
    /\ ahead # 0 /\ ahead' = 0 /\ moved' = "yes"
    /\ air' = [air EXCEPT !.answers = {}]
    /\ UNCHANGED <<now, sender, history, pong, sync>>

(* An acknowledgement: with a PONG, or another one before that is handled.  *)
PongReceived ==
    /\ pong = NoPong
    /\ \E a \in air.answers :
         /\ air' = [air EXCEPT !.answers = air.answers \ {a}]
         /\ pong' = [ctr |-> a.ctr, theirs |-> a.theirs, ours |-> now]
    /\ UNCHANGED <<now, ahead, sender, history, sync, moved>>
AckReceived ==
    /\ pong # NoPong /\ pong' = [pong EXCEPT !.ours = now]
    /\ UNCHANGED <<now, ahead, sender, history, air, sync, moved>>

-----------------------------------------------------------------------------
(* event_handler, a PONG to this tracker.                                   *)
Matching == {i \in Entries : /\ history.entry[i].ctr = pong.ctr
                             /\ history.entry[i].ticks # 0}

Aged(s, rtt) ==
    IF rtt > 0 /\ rtt <= s.minRtt THEN [s EXCEPT !.minRtt = rtt, !.age = 0]
    ELSE IF s.age + 1 >= MinRttAgeLimit /\ s.minRtt < MinRttCeiling
         THEN [s EXCEPT !.minRtt = s.minRtt + 1, !.age = 0]
         ELSE [s EXCEPT !.age = Smaller(s.age + 1, MinRttAgeLimit)]

Threshold(minRtt) == Bigger(RttFactor * minRtt, RttFloor)

\* The longest round trip that may be accepted.
Longest == Threshold(Bigger(FirstMinRtt, MinRttCeiling))

Accepted_Always(rtt, minRtt) == TRUE

Accepted(rtt, minRtt) == rtt < Threshold(minRtt)

(* The drift to expect since the reference, and the skew after a sample.    *)
SinceRef(s, ping) == (ping - s.refAt) % TickWrap
Drift(s, ping) == Quotient(s.skew * SinceRef(s, ping), Billion)

Jumped(s, sample, ping) == Magnitude(sample - (s.ref + Drift(s, ping))) > Jump

Measured(s, sample, since) == Quotient((sample - s.ref) * Billion, since)

Skewed(s, sample, since) ==
    IF since >= Second THEN s.skew + Quotient(Measured(s, sample, since) - s.skew, 4)
                       ELSE s.skew

(* The code means to add the drift since the last PONG to the old estimate, *)
(* but has overwritten the time of that PONG by the time of this one (707). *)
Filtered(s, sample) ==
    LET d == sample - s.offset IN
    s.offset + IF s.count + 1 <= WarmUp THEN Quotient(3 * d + 2, 4)
                                        ELSE Quotient(d + 2, 4)

(* The first sample and one that jumps are taken as they are.               *)
Updated(s, sample, ping) ==
    LET since == SinceRef(s, ping)
        jumped == s.begun /\ Jumped(s, sample, ping)
        taken == ~s.begun \/ jumped
        newRef == taken \/ since > RefRefresh
    IN [synced |-> TRUE, begun |-> TRUE, at |-> now, local |-> ping,
        offset |-> IF taken THEN sample ELSE Filtered(s, sample),
        ref |-> IF newRef THEN sample ELSE s.ref,
        refAt |-> IF newRef THEN ping ELSE s.refAt,
        skew |-> IF jumped THEN 0 ELSE IF taken THEN s.skew ELSE Skewed(s, sample, since),
        count |-> IF jumped THEN s.count ELSE IF taken THEN 0 ELSE Smaller(s.count + 1, WarmUp),
        minRtt |-> s.minRtt, age |-> s.age]

(* What a sample tells of a restart: nothing if it is of the clock before.  *)
(* It shows as a jump, unless the drift to expect was as large.             *)
Noticed(s, sample, ping) ==
    IF moved = "no" \/ sample >= ahead + Jump THEN moved
    ELSE IF \/ ~s.begun \/ Jumped(s, sample, ping)
            \/ moved = "yes" /\ Magnitude(Drift(s, ping)) <= Jump - Longest
         THEN "no"
         ELSE "missed"

HandlePong ==
    /\ pong # NoPong /\ pong' = NoPong
    /\ IF Matching = {} THEN UNCHANGED <<sync, moved>>
       ELSE \E i \in Matching :
              /\ \A j \in Matching : i <= j
              /\ LET ping == history.entry[i].ticks
                     sample == pong.theirs - pong.ours
                     s == Aged(sync, pong.ours - ping)
                 IN IF Accepted(pong.ours - ping, s.minRtt)
                    THEN sync' = Updated(s, sample, ping) /\ moved' = Noticed(s, sample, ping)
                    ELSE sync' = s /\ UNCHANGED moved
    /\ UNCHANGED <<now, ahead, sender, history, air>>

(* esb_get_server_time_ticks_64: what is added to the tracker's own time,   *)
(* the estimate and the skew since the last PONG; an old one is given up.   *)
Elapsed == now - sync.local
InUse == sync.offset + Quotient(sync.skew * Elapsed, Billion)
SyncOld == now - sync.at > SyncTimeout
SyncTimedOut ==
    /\ sync.synced /\ SyncOld
    /\ sync' = [sync EXCEPT !.synced = FALSE]
    /\ UNCHANGED <<now, ahead, sender, history, air, pong, moved>>

\* esb_clear_time_sync_state
ClearSync ==
    /\ sync' = [Unsynced EXCEPT !.age = sync.age]
    /\ UNCHANGED <<now, ahead, sender, history, air, pong, moved>>

TimeNext ==
    \/ Tick \/ QueuePing \/ StampPing \/ PingHeard \/ PingLost \/ ReceiverRestarts
    \/ PongReceived \/ AckReceived \/ HandlePong \/ SyncTimedOut \/ ClearSync

TimeSpec == TimeInit /\ [][TimeNext]_timeVars

-----------------------------------------------------------------------------
TimeTypeOK ==
    /\ now \in 1 .. MaxTime /\ ahead \in {0, 2 * Jump}
    /\ sync.minRtt \in 1 .. Bigger(FirstMinRtt, MinRttCeiling)
    /\ sync.age \in 0 .. MinRttAgeLimit /\ sync.count \in 0 .. WarmUp

\* The time in use stays close to the receiver's clock: whichever PONGs are late, lost
\* or matched with the record of another PING (esb.c:588, 670), and however filter and
\* skew round.  The estimate never leads, and lags by less than the longest round trip
\* that is accepted; the correction since the last PONG (esb_get_server_time_ticks_64)
\* adds or takes off less than such a round trip for every second it has run on.  This
\* holds again from the first PONG after a restart of the receiver that shows as a jump,
\* as it does unless the drift to expect is itself about as large.
SyncError ==
    LET wander == ((Longest - 1) * Elapsed) \div Second IN
    sync.synced /\ ~SyncOld /\ moved = "no" =>
        /\ sync.offset <= ahead /\ sync.offset > ahead - Longest
        /\ InUse \in sync.offset - wander .. sync.offset + wander
=============================================================================
