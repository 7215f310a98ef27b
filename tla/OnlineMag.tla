------------------------------- MODULE OnlineMag -------------------------------
(***************************************************************************)
(* The calibration of the magnetometer that goes on while the tracker is   *)
(* worn (sensor/calibration.c).  The sensor thread puts samples into a     *)
(* small ring per octant; the calibration thread, which the sensor thread  *)
(* preempts, fits them now and then and blends the result into magBAinv.   *)
(* Both consult what the fusion says of a disturbed field, and how well    *)
(* the present calibration fits, which is known only while the field is    *)
(* not disturbed.                                                          *)
(*                                                                         *)
(* A sample is the environment it was taken in, a calibration the          *)
(* environment it fits, or Mixed.  The quality is a class: below 4%, below *)
(* 5%, below 6%, and bad or unknown.  The interval between two checks, and *)
(* between two updates, is how long a check or an update may fail to come. *)
(***************************************************************************)
EXTENDS Integers, FiniteSets

CONSTANTS
    Environments,
    Field,         \* Field[e]: the norm of the field in e
    Octants,
    MinSamples,    \* MAG_CAL_MIN_SAMPLES, of rings that hold one sample
    MaxAge,        \* ONLINE_STALE_QUADRANT_MAX_AGE
    MinUpdates,    \* ONLINE_MIN_UPDATES
    Mixed, None

ASSUME OnlineAssumption ==
    /\ {Mixed, None} \cap Environments = {} /\ Mixed # None
    /\ DOMAIN Field = Environments /\ None \notin {Field[e] : e \in Environments}
    /\ IsFiniteSet(Octants) /\ MinSamples \in 1 .. Cardinality(Octants)
    /\ MaxAge \in Nat /\ MinUpdates \in Nat \ {0}

VARIABLES
    env,           \* where the tracker is
    disturbed,     \* vqf_get_mag_dist_detected
    lasts,         \* online_vqf_dist_start_time: none, just set, > 3 s ago, > 5 s ago
    magBAinv, cv,
    quad,          \* quad_buf: a sample or None
    behind,        \* online_total_sample_count - last_seq, in each octant
    unchecked,     \* online_total_sample_count is not online_last_checked_sample_count
    updates, field,  \* online_update_count, online_last_buf_avg_norm
    suppressed,    \* online_collection_suppress_until has not been reached
    step, fit     \* of the check in progress

onlineVars == <<env, disturbed, lasts, magBAinv, cv, quad, behind, unchecked,
                updates, field, suppressed, step, fit>>
placeVars == <<env, disturbed>>
bufVars == <<quad, behind>>
calVars == <<magBAinv, cv, updates, field>>

Calibrated == magBAinv # None

OnlineInit ==
    /\ env \in Environments /\ disturbed = FALSE /\ lasts = 0
    /\ magBAinv \in Environments \cup {None} /\ cv = 3
    /\ quad = [o \in Octants |-> None] /\ behind = [o \in Octants |-> 0]
    /\ unchecked = FALSE
    /\ updates = 0 /\ field = None /\ suppressed = FALSE /\ step = "idle" /\ fit = None

\* The tracker is carried elsewhere; the fusion sees a disturbance,
\* which without a calibration it cannot.
Carried ==
    /\ env' \in Environments /\ disturbed' \in BOOLEAN
    /\ disturbed' => Calibrated
    /\ UNCHANGED <<lasts, bufVars, calVars, unchecked, suppressed, step, fit>>

Unsuppress ==
    /\ suppressed /\ suppressed' = FALSE
    /\ UNCHANGED <<placeVars, lasts, bufVars, calVars, unchecked, step, fit>>
Longer ==
    /\ lasts \in {1, 2} /\ lasts' = lasts + 1
    /\ UNCHANGED <<placeVars, bufVars, calVars, unchecked, suppressed, step, fit>>

-----------------------------------------------------------------------------
(* The sensor thread                                                       *)

\* sensor_calibration_track_mag_norm; the quality is known after 100 norms.
TrackNorm ==
    /\ Calibrated /\ ~disturbed
    /\ cv' \in IF magBAinv = env THEN 0 .. 3 ELSE 1 .. 3
    /\ UNCHANGED <<placeVars, lasts, bufVars, magBAinv, updates, field, unchecked, suppressed, step, fit>>

Lasts == IF ~disturbed THEN 0 ELSE IF lasts = 0 THEN 1 ELSE lasts

Rejected_WhileDisturbed == Calibrated /\ cv < 3 /\ disturbed
\* While the field is disturbed no samples are taken, unless the calibration is bad
\* or the disturbance lasts.
Rejected == Calibrated /\ cv < 3 /\ disturbed /\ Lasts < 3

Later(n) == IF n > MaxAge THEN n ELSE n + 1

\* The rate, the acceleration and the change of direction decide which samples are
\* taken.
Sample(o) ==
    /\ lasts' = Lasts
    /\ IF suppressed \/ Rejected THEN UNCHANGED <<bufVars, unchecked>>
       ELSE /\ quad' = [quad EXCEPT ![o] = env]
            /\ unchecked' = TRUE
            /\ behind' = [p \in Octants |-> IF p = o \/ quad[p] = None THEN 0 ELSE Later(behind[p])]
    /\ UNCHANGED <<placeVars, calVars, suppressed, step, fit>>

-----------------------------------------------------------------------------
(* The calibration thread: sensor_calibration_online_mag_check             *)

Recent(o) == quad[o] # None /\ behind[o] <= MaxAge
Samples == {o \in Octants : Recent(o)}

\* A calibration that is good, or has converged, is left alone; how the samples are
\* spread over the directions may speak against it.
LeftAlone ==
    /\ Calibrated
    /\ \/ cv < 1 /\ lasts < 2
       \/ cv < 2 /\ updates >= MinUpdates /\ lasts < 2

Check ==
    /\ step = "idle" /\ Cardinality(Samples) >= MinSamples
    /\ unchecked
    /\ unchecked' = FALSE
    /\ \/ LeftAlone /\ step' = "idle"
       \/ (~LeftAlone \/ cv = 1) /\ step' = "collect"
    /\ UNCHANGED <<placeVars, lasts, bufVars, calVars, suppressed, fit>>

Fits == {quad[o] : o \in Samples}
OneEnv == Cardinality(Fits) = 1

\* Too few are recent by now, or they range over too little.
TooFew ==
    /\ step = "collect" /\ step' = "idle"
    /\ UNCHANGED <<placeVars, lasts, bufVars, calVars, unchecked, suppressed, fit>>

\* The samples' mean norm is compared with that of the last update's.
OtherField ==
    /\ Calibrated /\ updates > 0 /\ field # None
    /\ \E e \in Fits : Field[e] # field

\* The first step of magneto_online_clear_history.
EmptyRings ==
    /\ quad' = [o \in Octants |-> None]
    /\ behind' = [o \in Octants |-> 0]

NewField ==
    /\ step = "collect" /\ Cardinality(Samples) >= MinSamples
    /\ OtherField /\ step' = "clear" /\ fit' = None
    /\ EmptyRings
    /\ UNCHANGED <<placeVars, lasts, calVars, unchecked, suppressed>>

SameField == ~OtherField \/ \E e \in Fits : Field[e] = field

BadFit ==
    /\ step = "collect" /\ Cardinality(Samples) >= MinSamples
    /\ SameField /\ ~OneEnv /\ step' = "idle"
    /\ UNCHANGED <<placeVars, lasts, bufVars, calVars, unchecked, suppressed, fit>>

Fit ==
    /\ step = "collect" /\ Cardinality(Samples) >= MinSamples
    /\ SameField /\ step' = "decide"
    /\ fit' = IF OneEnv THEN CHOOSE e \in Environments : e \in Fits ELSE Mixed
    /\ UNCHANGED <<placeVars, lasts, bufVars, calVars, unchecked, suppressed>>

\* magneto_BAinv_similarity: below 0.85 or not.
Similar == IF fit = magBAinv THEN {TRUE} ELSE IF Mixed \in {fit, magBAinv} THEN BOOLEAN ELSE {FALSE}

\* Not similar, or too soon after the last update.
Reject ==
    /\ step = "decide" /\ step' = "idle" /\ Calibrated
    /\ fit' = None /\ UNCHANGED <<placeVars, lasts, bufVars, calVars, unchecked, suppressed>>

\* The first result is taken as it is; later ones are blended with what is there. memcpy to magBAinv,
\* and the buffer is cleared.
Apply ==
    /\ step = "decide" /\ step' = "clear"
    /\ Calibrated => TRUE \in Similar \/ updates < MinUpdates
    /\ magBAinv' \in IF Calibrated /\ fit # magBAinv THEN {fit, Mixed} ELSE {fit}
    /\ EmptyRings
    /\ UNCHANGED <<placeVars, lasts, cv, updates, field, unchecked, suppressed, fit>>

\* The rest of magneto_online_clear_history, and what follows it in the check.  A
\* sample that came in between has the number of a total that is zero now, so it
\* counts as recent for as many samples more, MinSamples of them at least.
Clear ==
    /\ step = "clear" /\ step' = "idle"
    /\ behind' = [o \in Octants |-> IF quad[o] = None THEN 0 ELSE -MinSamples]
    /\ unchecked' = FALSE
    /\ IF fit = None
       THEN /\ updates' = 0 /\ field' = None /\ UNCHANGED <<magBAinv, cv>>
       ELSE /\ updates' = IF ~Calibrated THEN 1 ELSE IF updates < MinUpdates THEN updates + 1 ELSE updates
            /\ field' \in IF fit = Mixed THEN {Field[e] : e \in Environments} ELSE {Field[fit]}
            /\ cv' = 3 /\ UNCHANGED magBAinv
    /\ suppressed' = TRUE /\ fit' = None /\ UNCHANGED <<placeVars, lasts, quad>>

\* sensor_calibration_online_mag_cold_start and the end of a manual calibration,
\* while no check is in progress.
RuntimeReset ==
    /\ step = "idle" /\ EmptyRings
    /\ unchecked' = FALSE
    /\ magBAinv' \in {magBAinv, None, env} /\ cv' = 3 /\ updates' = 0 /\ field' = None
    /\ disturbed' = (disturbed /\ magBAinv' # None)
    /\ suppressed' = TRUE /\ UNCHANGED <<env, lasts, step, fit>>

OnlineNext ==
    \/ Carried \/ Longer \/ Unsuppress
    \/ TrackNorm \/ \E o \in Octants : Sample(o)
    \/ Check \/ TooFew \/ NewField \/ BadFit \/ Fit \/ Reject \/ Apply \/ Clear
    \/ RuntimeReset

OnlineSpec ==
    /\ OnlineInit /\ [][OnlineNext]_onlineVars
    /\ WF_onlineVars(Longer) /\ WF_onlineVars(Unsuppress)
    /\ \A o \in Octants : SF_onlineVars(Sample(o))
    /\ SF_onlineVars(Check /\ step' = "collect") /\ SF_onlineVars(NewField \/ Fit)
    /\ WF_onlineVars(TooFew \/ NewField \/ BadFit \/ Fit \/ Reject \/ Apply \/ Clear)

-----------------------------------------------------------------------------
OnlineTypeOK ==
    /\ env \in Environments /\ disturbed \in BOOLEAN /\ lasts \in 0 .. 3
    /\ magBAinv \in Environments \cup {None, Mixed} /\ cv \in 0 .. 3
    /\ quad \in [Octants -> Environments \cup {None}]
    /\ behind \in [Octants -> -MinSamples .. MaxAge + 1]
    /\ updates \in 0 .. MinUpdates /\ suppressed \in BOOLEAN
    /\ step \in {"idle", "collect", "decide", "clear"}

\* "Without this, a deadlock occurs: VQF reports disturbance -> gate blocks samples
\* -> ... -> gate never opens -> no recalibration possible" (calibration.c:2933):
\* where a disturbed field stays, a tracker that is turned gets new fits.
KeepsFitting ==
    <>[]disturbed /\ <>[][env' = env /\ ~RuntimeReset]_onlineVars
        => []<><<Fit>>_onlineVars
=============================================================================
