------------------------------ MODULE Grounding ------------------------------
(***************************************************************************)
(* The evidence tables and the checks that keep a report within its        *)
(* evidence: intelligence/domain_validator.py, the validation of factors   *)
(* in agents/crash_investigator.py, intelligence/narrative_validator.py,   *)
(* and the sorting and deduplication of anomalies.                         *)
(*                                                                         *)
(* A text is the set of the domains whose keywords it uses, and "sacc" for *)
(* the GPS accuracy keywords that only the factor validator knows. A rule  *)
(* name and an agent name stand for themselves: the prefixes of the tables *)
(* are expanded over the rules and agents there are.                       *)
(***************************************************************************)
EXTENDS Ordering

Domains == {"GPS", "EKF", "VIBRATION", "COMPASS", "MOTOR", "POWER", "RC"}

EkfRules == {"EKF_INNOV_VEL", "EKF_INNOV_POS", "EKF_LANE_SWITCH", "EKF_MAG_INNOV",
             "EKF_HEIGHT_INNOV", "EKF_VEL_INNOV_SPIKE", "EKF_POS_OFFSET_GROWTH"}
GpsRules == {"GPS_HDOP_DEGRADATION", "GPS_SAT_COUNT_DROP", "GPS_POSITION_GLITCH",
             "GPS_LOW_SAT_COUNT", "GPS_SPOOF_INDICATOR", "GPS_FIX_DROP"}
PowerRules == {"BAT_VOLTAGE_SAG", "BAT_BROWNOUT", "BAT_CURRENT_SPIKE",
               "BAT_LOW_CAPACITY", "BAT_HIGH_R_INT"}
VibrationRules == {"IMU_CLIPPING", "VIBE_HIGH_RMS", "IMU_RAW_EXTREME"}
MotorRules == {"MOTOR_IMBALANCE", "ESC_DESYNC", "MOTOR_OUTPUT_SATURATION",
               "MOTOR_OUTPUT_DROP"}

\* The evidence ids, rules and agents, of each domain.
Evidence ==
    [GPS       |-> GpsRules \cup {"GPSIntegrityAgent"},
     EKF       |-> EkfRules \cup {"EKFDiagnosticsAgent"},
     VIBRATION |-> VibrationRules \cup {"VibrationAnalysisAgent"},
     COMPASS   |-> {"EKF_MAG_INNOV"},
     MOTOR     |-> MotorRules \cup {"ESCMotorAgent"},
     POWER     |-> PowerRules \cup {"PowerSystemAgent"},
     RC        |-> {"FAILSAFE_VERIFY", "MissionBehaviorAgent"}]

\* What the rules' own descriptions claim, file by file.
EkfDescribed(a) ==
    {"EKF"}
        \cup {d \in {"COMPASS"} : a.rule = "EKF_MAG_INNOV"}
        \cup {d \in {"GPS"} :
                 \/ a.rule \in {"EKF_HEIGHT_INNOV", "EKF_VEL_INNOV_SPIKE",
                                "EKF_POS_OFFSET_GROWTH"}
                 \/ a.rule = "EKF_INNOV_VEL" /\ a.severity = "WARNING"}

VibrationDescribed(a) ==
    CASE a.rule = "IMU_CLIPPING" -> {"EKF"}
      [] a.rule = "IMU_RAW_EXTREME" -> {"VIBRATION"}
      [] OTHER -> {"VIBRATION", IF a.severity = "CRITICAL" THEN "EKF" ELSE "MOTOR"}

PowerDescribed(a) == {"POWER"} \cup {d \in {"MOTOR"} : a.rule = "BAT_CURRENT_SPIKE"}

FailsafeDescribed(a) == {d \in {"GPS"} : a.rule = "UNSAFE_ARM"}

Described(a) ==
    CASE a.rule \in EkfRules -> EkfDescribed(a)
      [] a.rule \in GpsRules -> {"GPS"}
      [] a.rule \in PowerRules -> PowerDescribed(a)
      [] a.rule \in VibrationRules -> VibrationDescribed(a)
      [] a.rule \in MotorRules -> {"MOTOR"}
      [] OTHER -> FailsafeDescribed(a)

-----------------------------------------------------------------------------
\* _find_domain_claims of the narrative validator; _claimed_domains of the
\* factor validator, which has no POWER.
NarrativeClaims(text) == text \cap Domains
FactorClaims(text) ==
    (text \cap (Domains \ {"POWER"})) \cup (IF "sacc" \in text THEN {"GPS"} ELSE {})

\* check_factor_domain and check_claim_text_domain: the domains that are claimed
\* and have no evidence among the ids.
Unsupported(text, ids) == {d \in FactorClaims(text) : Evidence[d] \cap ids = {}}

\* extract_evidence_domains
EvidenceDomains(ids) == {d \in Domains : Evidence[d] \cap ids # {}}

\* Variant for mutation: the claims are checked against everything cited.
IsGroundedUntrimmed(f, valid) ==
    /\ f.cited \cap valid # {}
    /\ Unsupported(f.text, f.cited) = {}

\* validate_contributing_factors: a factor is grounded when it cites something
\* that exists, and what it cites covers what it claims.
IsGrounded(f, valid) ==
    /\ f.cited \cap valid # {}
    /\ Unsupported(f.text, f.cited \cap valid) = {}

GroundedFactors(offered, valid) ==
    {[f EXCEPT !.cited = @ \cap valid] : f \in {g \in offered : IsGrounded(g, valid)}}

\* apply_narrative_safety_gate, with build_safe_narrative_from_structured: when
\* some field is in violation, the summary and the chain are replaced if they are
\* themselves; the root cause stays. A chain in violation is never empty, and so
\* its replacement is the chain. The new summary quotes the root cause and the
\* factors (the first three; here there are never more).
NarrativeFields == {"summary", "chain", "root"}
GateViolations(r, allowed) ==
    {field \in NarrativeFields : NarrativeClaims(r[field]) \ allowed # {}}
SafeSummary(r, allowed) ==
    r.root \cup (UNION {f.text : f \in r.factors}) \cup (allowed \ {"POWER", "RC"})

\* Variant for mutation: the summary is replaced when the chain is in violation.
SafetyGateOtherField(r, allowed) ==
    LET violated == GateViolations(r, allowed) IN
    [r EXCEPT !.summary = IF "chain" \in violated THEN SafeSummary(r, allowed) ELSE @,
              !.valid = violated = {}]

SafetyGate(r, allowed) ==
    LET violated == GateViolations(r, allowed) IN
    [r EXCEPT !.summary = IF "summary" \in violated THEN SafeSummary(r, allowed) ELSE @,
              !.valid = violated = {}]

-----------------------------------------------------------------------------
Severities == {"FATAL", "CRITICAL", "WARNING", "INFO"}
Rank == [FATAL |-> 0, CRITICAL |-> 1, WARNING |-> 2, INFO |-> 3]

Key(a) == <<a.rule, a.time>>

\* The first anomaly of each rule and time.
Deduplicated(s) ==
    Subsequence(s, {i \in DOMAIN s : \A j \in 1..(i - 1) : Key(s[j]) # Key(s[i])})

\* Variant for mutation: the latest first.
LaterFirst(a) == <<-a.time, 0>>

\* The keys that anomalies are sorted by.
EarlierFirst(a) == <<a.time, 0>>
EarlierThenSeverer(a) == <<a.time, Rank[a.severity]>>
SevererThenEarlier(a) == <<Rank[a.severity], a.time>>
SevererThenLater(a) == <<Rank[a.severity], -a.time>>

\* max(anomalies, key=(severity, timestamp)): of the severest, the latest.
Top(s) == Head(SortBy(s, SevererThenLater))
=============================================================================
