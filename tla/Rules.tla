------------------------------- MODULE Rules -------------------------------
(***************************************************************************)
(* intelligence/rules: the deterministic anomaly rules, "the GROUND TRUTH  *)
(* layer".  A boolean column is the set of the indices at which it holds;  *)
(* what a rule returns is a set of findings.  Thresholds are the code's,   *)
(* in integers: volts, ratios, radians and HDOP in tenths, times in tenths *)
(* of a second.  Descriptions and raw values are left out.                 *)
(* Not here: MOTOR_IMBALANCE, BAT_CURRENT_SPIKE and BAT_HIGH_R_INT, which  *)
(* are statistics over whole flights, and RTL_BEHAVIOR.                    *)
(***************************************************************************)
EXTENDS FlightLog, FiniteSetsExt

Instant == -1   \* end_timestamp_us is None

Finding(rule, severity, from, to) ==
    [rule |-> rule, severity |-> severity, time |-> from, until |-> to]

-----------------------------------------------------------------------------
(* base_rule.py *)

\* The scan of _find_sustained_violations: after the first i samples, the
\* start of the run that is open (0: none) and the runs found so far.  A run
\* that is still open when the frame ends is closed by its last sample.
Close(frame, open, last, least) ==
    IF open # 0 /\ frame[last].t - frame[open].t >= least
    THEN {<<frame[open].t, frame[last].t>>} ELSE {}

\* Variant for mutation: the run that is open when the frame ends is forgotten.
SustainedRunsUnclosed(frame, mask, least) ==
    UNION {Close(frame, run[1], run[2], least) : run \in
        {ab \in mask \X mask :
            ab[1] <= ab[2] /\ ab[1]..ab[2] \subseteq mask /\ ab[1] - 1 \notin mask
                /\ ab[2] < Len(frame) /\ ab[2] + 1 \notin mask}}

SustainedRuns(frame, mask, least) ==
    LET n == Len(frame)
        scan[i \in 0..n] ==
            IF i = 0 THEN [open |-> 0, found |-> {}]
            ELSE LET before == scan[i - 1] IN
                 IF i \in mask
                 THEN [before EXCEPT !.open = IF @ = 0 THEN i ELSE @]
                 ELSE [open |-> 0,
                       found |-> before.found \cup Close(frame, before.open, i - 1, least)]
    IN  scan[n].found \cup Close(frame, scan[n].open, n, least)

Sustained(rule, severity, frame, mask, least) ==
    {Finding(rule, severity, run[1], run[2]) : run \in SustainedRuns(frame, mask, least)}

Instantaneous(rule, severity, frame, mask) ==
    {Finding(rule, severity, frame[i].t, Instant) : i \in mask}

\* np.split at the places where the next index is more than gap away.
Groups(indices, gap) ==
    LET starts == {i \in indices : \A j \in indices : j >= i \/ i - j > gap}
        ends   == {i \in indices : \A j \in indices : j <= i \/ j - i > gap}
    IN  {<<s, Min({e \in ends : e >= s})>> : s \in starts}

Episodes(rule, severity, frame, mask, gap) ==
    {Finding(rule, severity, frame[g[1]].t, frame[g[2]].t) : g \in Groups(mask, gap)}

\* Consecutive samples no further apart than the window.
Steps(frame, window) ==
    {i \in 2..Len(frame) : frame[i].t - frame[i - 1].t \in 1..window}

-----------------------------------------------------------------------------
(* ekf_rules.py *)
NKF3 == Either("NKF3", "XKF3")
NKF4 == Either("NKF4", "XKF4")
Abs(x) == IF x < 0 THEN -x ELSE x
Above(frame, field, limit) == {i \in DOMAIN frame : Abs(frame[i][field]) > limit}

EKFInnovationVelocity ==
    Sustained("EKF_INNOV_VEL", "WARNING", NKF4, Above(NKF4, "vel", 5), 5 * Second)
        \cup Sustained("EKF_INNOV_VEL", "CRITICAL", NKF4, Above(NKF4, "vel", 10), 2 * Second)

EKFInnovationPosition ==
    Sustained("EKF_INNOV_POS", "CRITICAL", NKF4, Above(NKF4, "pos", 10), 2 * Second)

\* Errors of the EKF subsystems, cleared ones included, and changes of the
\* lane field of NKF4 (XKF4 is not looked at here).
LaneErrors == {i \in DOMAIN Rows("ERR") : Rows("ERR")[i].subsys \in {16, 17, 24}}
LaneChanges ==
    LET frame == Rows("NKF4")
    IN  {i \in 2..Len(frame) : frame[i].lane # frame[i - 1].lane}

EKFLaneSwitch ==
    Instantaneous("EKF_LANE_SWITCH", "CRITICAL", Rows("ERR"), LaneErrors)
        \cup Instantaneous("EKF_LANE_SWITCH", "CRITICAL", Rows("NKF4"), LaneChanges)

EKFMagneticInnovation ==
    Sustained("EKF_MAG_INNOV", "WARNING", NKF3, Above(NKF3, "heading", 3), 5 * Second)

EKFHeightInnovation ==
    Sustained("EKF_HEIGHT_INNOV", "WARNING", NKF4, Above(NKF4, "hgt", 10), 3 * Second)

EKFVelocityInnovationSpike ==
    Instantaneous("EKF_VEL_INNOV_SPIKE", "CRITICAL", NKF3, Above(NKF3, "innov", 2))

EKFPositionOffsetGrowth ==
    Sustained("EKF_POS_OFFSET_GROWTH", "WARNING", NKF4, Above(NKF4, "offset", 5), 2 * Second)

-----------------------------------------------------------------------------
(* gps_rules.py; a position is a distance along the flight path, in metres. *)
GPS == Rows("GPS")

GPSHDOPDegradation ==
    Sustained("GPS_HDOP_DEGRADATION", "WARNING", GPS, Above(GPS, "hdop", 20), 10 * Second)
        \cup Sustained("GPS_HDOP_DEGRADATION", "CRITICAL", GPS, Above(GPS, "hdop", 50), 5 * Second)

GPSSatCountDrop ==
    LET lost(i) == GPS[i - 1].sats - GPS[i].sats
        drops   == {i \in Steps(GPS, 10 * Second) : lost(i) >= 4}
    IN  Instantaneous("GPS_SAT_COUNT_DROP", "WARNING", GPS, {i \in drops : lost(i) < 6})
            \cup Instantaneous("GPS_SAT_COUNT_DROP", "CRITICAL", GPS, {i \in drops : lost(i) >= 6})

\* Only samples with a 3D fix are compared; three times the ground speed is
\* expected.
GPSPositionGlitch ==
    LET fixed   == SelectSeq(GPS, LAMBDA row : row.fix >= 3)
        jump(i) == Abs(fixed[i].pos - fixed[i - 1].pos)
        dt(i)   == fixed[i].t - fixed[i - 1].t
        limit(i) == Max({10 * fixed[i].speed, 1}) * 3 * dt(i)
    IN  Instantaneous("GPS_POSITION_GLITCH", "CRITICAL", fixed,
            {i \in Steps(fixed, 5 * Second) : jump(i) > 5 /\ 100 * jump(i) > limit(i)})

GPSLowSatelliteCount ==
    Sustained("GPS_LOW_SAT_COUNT", "WARNING", GPS,
              {i \in DOMAIN GPS : GPS[i].sats < 8}, 15 * Second)

GPSSpoofingIndicator ==
    Instantaneous("GPS_SPOOF_INDICATOR", "WARNING", GPS,
        {i \in Steps(GPS, 2 * Second) :
            /\ Abs(GPS[i].pos - GPS[i - 1].pos) > 10
            /\ GPS[i - 1].hdop - GPS[i].hdop > 3})

GPSFixTypeDrop ==
    Sustained("GPS_FIX_DROP", "CRITICAL", GPS,
              {i \in DOMAIN GPS : GPS[i].fix < 3}, 3 * Second)

-----------------------------------------------------------------------------
(* power_rules.py *)
Battery == Either("BAT", "CURR")

\* np.gradient over unevenly spaced samples, as a quotient: the slope before
\* and the slope after weighed by the spacing.
Gradient(i) ==
    LET v(j) == Battery[j].volt
        n    == Len(Battery)
        slope(j) == [num |-> v(j + 1) - v(j), den |-> Battery[j + 1].t - Battery[j].t]
    IN  IF i = 1 THEN slope(1)
        ELSE IF i = n THEN slope(n - 1)
        ELSE LET s == slope(i - 1).den
                 d == slope(i).den
             IN  [num |-> s * s * v(i + 1) + (d * d - s * s) * v(i) - d * d * v(i - 1),
                  den |-> s * d * (s + d)]

Sags(rate) ==
    {i \in DOMAIN Battery : Gradient(i).num < -rate * Gradient(i).den}

\* Variant for mutation: severe samples are taken out of the warnings, as the
\* clipping rule does.
BatteryVoltageSagSplit ==
    IF Len(Battery) < 3 THEN {}
    ELSE Episodes("BAT_VOLTAGE_SAG", "WARNING", Battery, Sags(1) \ Sags(3), 3)
            \cup Episodes("BAT_VOLTAGE_SAG", "CRITICAL", Battery, Sags(3), 3)

BatteryVoltageSag ==
    IF Len(Battery) < 3 THEN {}
    ELSE Episodes("BAT_VOLTAGE_SAG", "WARNING", Battery, Sags(1), 3)
            \cup Episodes("BAT_VOLTAGE_SAG", "CRITICAL", Battery, Sags(3), 3)

\* The number of cells is guessed from the highest voltage seen.
BrownoutSignature ==
    IF Battery = <<>> THEN {}
    ELSE LET top   == Max({Battery[i].volt : i \in DOMAIN Battery})
             cells == Max({1, (top + 21) \div 42})
         IN  Sustained("BAT_BROWNOUT", "CRITICAL", Battery,
                 {i \in DOMAIN Battery : Battery[i].volt < 33 * cells}, Second \div 2)

LowBatteryCapacity ==
    LET bat == Rows("BAT")
        below(pct) == {i \in DOMAIN bat : bat[i].pct < pct}
    IN  Sustained("BAT_LOW_CAPACITY", "WARNING", bat, below(20), 5 * Second)
            \cup Sustained("BAT_LOW_CAPACITY", "CRITICAL", bat, below(10), 2 * Second)

-----------------------------------------------------------------------------
(* vibration_rules.py *)

\* One VIBE sample alone has no sampling interval: the rule raises, and
\* run_all_rules goes on without it.
IMUClipping ==
    LET frame == Rows("VIBE")
        dt(i) == frame[Max({i, 2})].t - frame[Max({i, 2}) - 1].t
        faster(rate) == {i \in DOMAIN frame : frame[i].clips * Second > rate * Max({dt(i), 0})}
    IN  IF Len(frame) < 2 THEN {}
        ELSE Episodes("IMU_CLIPPING", "CRITICAL", frame, faster(100), 5)
                \cup Episodes("IMU_CLIPPING", "WARNING", frame, faster(50) \ faster(100), 5)

VibrationRMS ==
    LET frame == Rows("VIBE")
    IN  Sustained("VIBE_HIGH_RMS", "WARNING", frame, Above(frame, "rms", 15), 5 * Second)
            \cup Sustained("VIBE_HIGH_RMS", "CRITICAL", frame, Above(frame, "rms", 30), 3 * Second)

IMURawClipping ==
    Instantaneous("IMU_RAW_EXTREME", "WARNING", Rows("IMU"), Above(Rows("IMU"), "excess", 20))

-----------------------------------------------------------------------------
(* motor_rules.py; a row of RCOU holds the outputs of the motors. *)
ESCDesync ==
    LET esc == Rows("ESC")
        rpm(i) == esc[i].rpm
    IN  IF Len(esc) < 5 THEN {}
        ELSE Instantaneous("ESC_DESYNC", "CRITICAL", esc,
                {i \in Steps(esc, 2) :
                    rpm(i - 1) >= 500 /\ 10 * (rpm(i - 1) - rpm(i)) > 3 * rpm(i - 1)})

MotorOutputSaturation ==
    LET frame == Rows("RCOU")
    IN  UNION {Sustained("MOTOR_OUTPUT_SATURATION", "CRITICAL", frame,
                   {i \in DOMAIN frame : frame[i].out[m] > 1950}, 2 * Second) : m \in 1..4}

Asymmetric ==
    LET frame == Rows("RCOU")
    IN  {i \in DOMAIN frame :
            \E m, k \in 1..4 : frame[i].out[m] < 1100 /\ frame[i].out[k] > 1400}

\* One report per five seconds: a sample is kept when the last one that was
\* kept lies more than five seconds back.
Keep(last, t) == t - last > 5 * Second

\* Variant for mutation: the time of the last sample is remembered, kept or not.
KeptSpacedDrops ==
    LET frame == Rows("RCOU")
    IN  {i \in Asymmetric : \A j \in Asymmetric : j < i => Keep(frame[j].t, frame[i].t)}

KeptDrops ==
    LET frame == Rows("RCOU")
        scan[i \in 0..Len(frame)] ==
            IF i = 0 THEN [last |-> -5 * Second, kept |-> {}]
            ELSE LET before == scan[i - 1] IN
                 IF i \in Asymmetric /\ Keep(before.last, frame[i].t)
                 THEN [last |-> frame[i].t, kept |-> before.kept \cup {i}]
                 ELSE before
    IN  scan[Len(frame)].kept

MotorOutputDrop ==
    Instantaneous("MOTOR_OUTPUT_DROP", "CRITICAL", Rows("RCOU"), KeptDrops)

-----------------------------------------------------------------------------
(* failsafe_rules.py *)
Mode == Rows("MODE")
Failsafes == 5..9
ExpectedModes(subsys) == IF subsys \in {7, 8} THEN {"RTL"} ELSE {"RTL", "LAND"}

\* The MODE rows within three seconds after a failsafe error.
Responses(t) == {i \in DOMAIN Mode : Mode[i].t - t \in 0..(3 * Second)}

FailsafeTriggerVerification ==
    LET err == Rows("ERR")
        failsafe == {i \in DOMAIN err : err[i].subsys \in Failsafes}
        silent   == {i \in failsafe : Responses(err[i].t) = {}}
        wrong    == {i \in failsafe \ silent :
                        \A j \in Responses(err[i].t) :
                            Mode[j].mode \notin ExpectedModes(err[i].subsys)}
    IN  IF Mode = <<>> THEN {}
        ELSE Instantaneous("FAILSAFE_VERIFY", "CRITICAL", err, silent)
                \cup Instantaneous("FAILSAFE_VERIFY", "WARNING", err, wrong)

UnexpectedModeChange ==
    Instantaneous("UNEXPECTED_MODE_CHANGE", "INFO", Mode,
        {i \in 2..Len(Mode) : Mode[i].reason \in 4..11})

\* "Armed" at the first MODE row that has a name.
ArmingInUnsafeCondition ==
    LET named == {i \in DOMAIN Mode : Mode[i].mode \notin {"INITIALISING", "unnamed"}}
        arm   == Min(named)
        seen  == {i \in DOMAIN GPS : GPS[i].t - Mode[arm].t \in (-5 * Second)..(2 * Second)}
    IN  IF named # {} /\ \E i \in seen : GPS[i].fix < 3
        THEN Instantaneous("UNSAFE_ARM", "WARNING", Mode, {arm}) ELSE {}

-----------------------------------------------------------------------------
\* pipeline/anomaly_detector.py: run_all_rules.
Findings ==
    UNION {EKFInnovationVelocity, EKFInnovationPosition, EKFLaneSwitch,
           EKFMagneticInnovation, EKFHeightInnovation, EKFVelocityInnovationSpike,
           EKFPositionOffsetGrowth, GPSHDOPDegradation, GPSSatCountDrop,
           GPSPositionGlitch, GPSLowSatelliteCount, GPSSpoofingIndicator, GPSFixTypeDrop,
           BatteryVoltageSag, BrownoutSignature, LowBatteryCapacity,
           IMUClipping, VibrationRMS, IMURawClipping,
           ESCDesync, MotorOutputSaturation, MotorOutputDrop,
           FailsafeTriggerVerification, UnexpectedModeChange, ArmingInUnsafeCondition}

-----------------------------------------------------------------------------
\* Whatever boolean column a rule computes over the frames of the flight, the
\* scan reports exactly the maximal runs that last long enough: none is split,
\* merged with its neighbour, or lost because the log ends inside it.
Maximal(n, mask, a, b) ==
    a <= b /\ a..b \subseteq mask /\ a - 1 \notin mask /\ (b = n \/ b + 1 \notin mask)

EveryRunReported ==
    \A c \in DOMAIN log : \A mask \in SUBSET DOMAIN log[c] :
        LET t(i) == log[c][i].t
            runs == {ab \in mask \X mask : Maximal(Len(log[c]), mask, ab[1], ab[2])}
        IN  \A least \in {Second \div 2, 2 * Second, 5 * Second, 15 * Second} :
                SustainedRuns(log[c], mask, least) =
                    {<<t(r[1]), t(r[2])>> : r \in {ab \in runs : t(ab[2]) - t(ab[1]) >= least}}

\* A sag that is reported as CRITICAL is also reported as a WARNING that spans
\* it: the two passes group their samples separately, by index distance.
SagWarnedToo ==
    \A f \in BatteryVoltageSag : f.severity = "CRITICAL" =>
        \E g \in BatteryVoltageSag :
            g.severity = "WARNING" /\ g.time <= f.time /\ f.until <= g.until

\* However long motors stay asymmetric, no five seconds of it go unreported,
\* and no two reports are closer than five seconds.
DropsReported ==
    LET frame == Rows("RCOU") IN
    /\ \A i \in Asymmetric : \E f \in MotorOutputDrop : frame[i].t - f.time \in 0..(5 * Second)
    /\ \A f, g \in MotorOutputDrop : f.time < g.time => g.time - f.time > 5 * Second
=============================================================================
