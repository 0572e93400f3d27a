------------------------- MODULE InvestigationGraph -------------------------
(***************************************************************************)
(* What one run of the agent graph (orchestrator/graph.py) does to the     *)
(* evidence: the anomalies seeded by the parse phase, the domain agents    *)
(* that run in parallel and are merged as they complete, the root-cause    *)
(* synthesis of agents/crash_investigator.py and the report of             *)
(* agents/report_writer.py. Any agent may raise; its node swallows the     *)
(* exception. What a model answers is an input, restricted to what it      *)
(* claims and cites.                                                       *)
(***************************************************************************)
EXTENDS Grounding, SequencesExt

CONSTANTS
    Agents,      \* the domain agents
    RuleOrder,   \* those of them whose rules the parse phase runs, in its order
    Logs,        \* flights: what each agent's rules emit, and whether it crashed
    Texts,       \* what a model's sentence may claim
    Citations,   \* the sets of ids that a model may cite
    Nothing

\* Agents of the graph whose names are not those of domain agents.
OtherAgents == {"FlightTimelineAgent", "ComparativeAnalystAgent", "CrashInvestigatorAgent"}
Anomalies == [rule : STRING, time : Int, severity : Severities]

ASSUME GraphAssumption ==
    /\ Agents \cap OtherAgents = {}
    /\ RuleOrder \in Seq(Agents)
    /\ \A flight \in Logs : /\ DOMAIN flight.emits = Agents
                            /\ \A a \in Agents : flight.emits[a] \in Seq(Anomalies)
                            /\ flight.crash \in BOOLEAN
    /\ Texts \subseteq SUBSET (Domains \cup {"sacc"})

VARIABLES
    log,        \* the flight under investigation
    hollow,     \* its parse phase could not read the telemetry back
    pc,         \* the graph's node
    running,    \* domain agents that have not completed
    blind,      \* history: agents that completed without reading the telemetry
    crashSeen,  \* "crash_detected" in the timeline agent's finding
    findings,   \* keys of state["agent_findings"]
    anomalies,  \* state["anomalies"]
    offered,    \* history: the factors that the crash investigator's model offered
    factors,    \* state["contributing_factors"]
    questions,  \* offered factors that became open questions
    cause,      \* state["root_cause"] and the anomaly that it is anchored to
    report      \* state["final_report"]

vars == <<log, hollow, pc, running, blind, crashSeen, findings, anomalies, offered,
          factors, questions, cause, report>>

Factors == [text : Texts, cited : Citations]
Classifications == {"CRASH", "ANOMALY", "REVIEW", "NOMINAL"}
CrashClassRules == {"EKF_LANE_SWITCH", "EKF_VEL_INNOV_SPIKE", "EKF_POS_OFFSET_GROWTH",
                    "IMU_RAW_EXTREME", "MOTOR_OUTPUT_DROP", "ESC_DESYNC",
                    "FAILSAFE_VERIFY", "UNSAFE_ARM"}

RulesIn(s) == {s[i].rule : i \in DOMAIN s}
EvidenceIds == RulesIn(anomalies) \cup findings

\* Variant for mutation: the anomalies are saved in the order of the rules.
ParsePhaseUnsorted(flight) ==
    FlattenSeq([i \in DOMAIN RuleOrder |-> flight.emits[RuleOrder[i]]])

\* run_all_rules: what the parse phase has saved as anomalies_fast.
ParsePhase(flight) ==
    SortBy(FlattenSeq([i \in DOMAIN RuleOrder |-> flight.emits[RuleOrder[i]]]),
           EarlierThenSeverer)

Init ==
    /\ log \in Logs
    /\ hollow \in BOOLEAN
    /\ pc = "timeline"
    /\ running = Agents
    /\ blind = {}
    /\ crashSeen = FALSE
    /\ findings = {}
    /\ anomalies = IF hollow THEN <<>> ELSE ParsePhase(log)
    /\ offered = {} /\ factors = {} /\ questions = {}
    /\ cause = Nothing
    /\ report = Nothing

Unread == <<log, hollow, running, blind, offered, factors, questions, cause, report>>

\* FlightTimelineAgent: its finding says whether the stored timeline has a crash
\* event, and that there is none when the timeline cannot be read.
Timeline ==
    /\ pc = "timeline"
    /\ pc' = "domain"
    /\ \/ /\ findings' = findings \cup {"FlightTimelineAgent"}
          /\ crashSeen' \in {FALSE, log.crash}
       \/ UNCHANGED <<findings, crashSeen>>
    /\ UNCHANGED anomalies /\ UNCHANGED Unread

\* A domain agent completes, and its result is merged: all that its rules have
\* emitted and its finding; the finding alone, when the store has swallowed a
\* failed read; nothing, when the agent raised (which it does before it adds
\* anything).
Merge(a) ==
    /\ pc = "domain"
    /\ a \in running
    /\ running' = running \ {a}
    /\ \/ /\ anomalies' = anomalies \o log.emits[a]
          /\ findings' = findings \cup {a}
          /\ UNCHANGED blind
       \/ /\ log.emits[a] # <<>>
          /\ findings' = findings \cup {a}
          /\ blind' = blind \cup {a}
          /\ UNCHANGED anomalies
       \/ UNCHANGED <<anomalies, findings, blind>>
    /\ UNCHANGED <<log, hollow, pc, crashSeen, offered, factors, questions, cause, report>>

\* Variant for mutation: the edge is named for the node, not for the choice.
JoinMisrouted ==
    /\ pc = "domain"
    /\ running = {}
    /\ anomalies' = SortBy(Deduplicated(anomalies), EarlierFirst)
    /\ pc' = "crash_investigation"
    /\ UNCHANGED <<findings, crashSeen>> /\ UNCHANGED Unread

\* All have completed: the anomalies are deduplicated and sorted.
Join ==
    /\ pc = "domain"
    /\ running = {}
    /\ anomalies' = SortBy(Deduplicated(anomalies), EarlierFirst)
    /\ pc' = "comparative"
    /\ UNCHANGED <<findings, crashSeen>> /\ UNCHANGED Unread

\* ComparativeAnalystAgent
Compare ==
    /\ pc = "comparative"
    /\ pc' = "crash"
    /\ findings' \in {findings, findings \cup {"ComparativeAnalystAgent"}}
    /\ UNCHANGED <<anomalies, crashSeen>> /\ UNCHANGED Unread

\* Variant for mutation: the model's word is taken.
AnchoredNever(proximate) == [text |-> proximate, anchor |-> Nothing]

\* The proximate cause, or the top anomaly's description when the model's claims
\* a domain with no evidence.
Anchored(proximate) ==
    IF Unsupported(proximate, EvidenceIds) # {} /\ anomalies # <<>>
    THEN [text |-> Described(Top(anomalies)), anchor |-> Top(anomalies)]
    ELSE [text |-> proximate, anchor |-> Nothing]

\* CrashInvestigatorAgent. The factors that are not grounded become questions.
Investigate ==
    /\ pc = "crash"
    /\ pc' = "writer"
    /\ \E proximate \in Texts, some \in {{}} \cup {{f} : f \in Factors} :
          /\ offered' = some
          /\ factors' = GroundedFactors(some, EvidenceIds)
          /\ questions' = {f \in some : ~IsGrounded(f, EvidenceIds)}
          /\ cause' = Anchored(proximate)
    /\ findings' = findings \cup {"CrashInvestigatorAgent"}
    /\ UNCHANGED <<log, hollow, running, blind, crashSeen, anomalies, report>>

InvestigationRaises ==
    /\ pc = "crash"
    /\ pc' = "writer"
    /\ UNCHANGED <<findings, anomalies, crashSeen>> /\ UNCHANGED Unread

\* Variant for mutation: any anomaly confirms a crash.
ClassifiedByAny(answer) ==
    IF crashSeen THEN "CRASH"
    ELSE IF answer = "CRASH" /\ anomalies = <<>> THEN "ANOMALY" ELSE answer

\* The two guards on the model's classification.
Classified(answer) ==
    IF crashSeen THEN "CRASH"
    ELSE IF /\ answer = "CRASH"
            /\ \A i \in DOMAIN anomalies : anomalies[i].severity # "FATAL"
            /\ RulesIn(anomalies) \cap CrashClassRules = {}
         THEN "ANOMALY" ELSE answer

\* _build_anomaly_registry
Registry == Deduplicated(SortBy(anomalies, SevererThenEarlier))

\* The root cause in the report: the investigator's, or the writing model's own
\* when no investigator named one. A cause that claims nothing may be an empty
\* answer, and that names none either.
RootsFrom(own) ==
    IF cause = Nothing THEN {own}
    ELSE {cause.text} \cup {t \in {own} : cause.text = {}}

\* ReportWriterAgent: the model's narrative, overridden by what is grounded, and
\* then the safety gate.
Write ==
    /\ pc = "writer"
    /\ pc' = "done"
    /\ \E summary, chain, own \in Texts, answer \in Classifications : \E root \in RootsFrom(own) :
          report' = SafetyGate([classification |-> Classified(answer),
                                registry       |-> Registry,
                                summary        |-> summary,
                                chain          |-> chain,
                                root           |-> root,
                                factors        |-> factors,
                                valid          |-> TRUE],
                               EvidenceDomains(EvidenceIds))
    /\ UNCHANGED <<log, hollow, running, blind, crashSeen, findings, anomalies, offered,
                   factors, questions, cause>>

WritingRaises ==
    /\ pc = "writer"
    /\ pc' = "done"
    /\ UNCHANGED <<findings, anomalies, crashSeen>> /\ UNCHANGED Unread

Next ==
    \/ Timeline \/ (\E a \in Agents : Merge(a)) \/ Join \/ Compare
    \/ Investigate \/ InvestigationRaises \/ Write \/ WritingRaises

Spec == Init /\ [][Next]_vars
-----------------------------------------------------------------------------
TypeOK ==
    /\ log \in Logs /\ hollow \in BOOLEAN
    /\ pc \in {"timeline", "domain", "comparative", "crash", "writer", "done"}
    /\ running \subseteq Agents /\ blind \subseteq Agents \ running
    /\ crashSeen => log.crash /\ "FlightTimelineAgent" \in findings
    /\ findings \subseteq Agents \cup OtherAgents
    /\ anomalies \in Seq(Anomalies)
    /\ offered \subseteq Factors /\ questions \subseteq offered
    /\ report # Nothing => report.classification \in Classifications

Emitted(a) == {log.emits[a][i] : i \in DOMAIN log.emits[a]}
Parsed == UNION {Emitted(RuleOrder[i]) : i \in DOMAIN RuleOrder}
Completed == (findings \cap Agents) \ blind
Merged == pc \in {"comparative", "crash", "writer", "done"}

\* Whatever order the agents complete in, and whichever of them raise or read
\* nothing, the merge loses no (rule, time) that the parse phase or an agent has detected,
\* invents none and keeps each once, in order of time.
MergeComplete ==
    Merged =>
        /\ {Key(anomalies[i]) : i \in DOMAIN anomalies}
             = {Key(a) : a \in (UNION {Emitted(g) : g \in Completed})
                                  \cup (IF hollow THEN {} ELSE Parsed)}
        /\ \A i, j \in DOMAIN anomalies :
              i < j => /\ Key(anomalies[i]) # Key(anomalies[j])
                       /\ anomalies[i].time <= anomalies[j].time

\* A rule that fires at two severities at one time is in the registry at the
\* severer, since the parse phase has sorted its anomalies by severity and the
\* merge keeps the first: unless the parse phase was hollow.
SeverestKept ==
    report # Nothing /\ ~hollow =>
        \A a \in Parsed : \E i \in DOMAIN report.registry :
            /\ Key(report.registry[i]) = Key(a)
            /\ Rank[report.registry[i].severity] <= Rank[a.severity]

\* "Unsupported/cross-domain factors are moved to open_questions, not silently
\* included": a factor in the report cites only evidence that this run has
\* produced, some of it for each domain it claims, and no factor is lost.
FactorsGrounded ==
    /\ \A f \in factors :
          /\ f.cited \subseteq EvidenceIds
          /\ \A d \in FactorClaims(f.text) : f.cited \cap Evidence[d] # {}
    /\ \A f \in offered : f \in questions \/ \E g \in factors : g.text = f.text
    /\ report # Nothing => report.factors \cap questions = {}

\* A root cause that claims a domain with no evidence is the description of a
\* detected anomaly, of the severest, unless nothing at all was detected.
CauseAnchored ==
    cause # Nothing /\ Unsupported(cause.text, EvidenceIds) # {} =>
        \/ anomalies = <<>>
        \/ \E i \in DOMAIN anomalies :
              /\ cause.anchor = anomalies[i]
              /\ \A j \in DOMAIN anomalies :
                    Rank[anomalies[i].severity] <= Rank[anomalies[j].severity]

\* A report says CRASH only with a detected crash, a FATAL anomaly or a
\* crash-class rule behind it, and a crash that the timeline agent has seen is
\* never reported as anything else, whatever the models say and whoever raises.
CrashJustified ==
    report # Nothing =>
        /\ report.classification = "CRASH" =>
              \/ log.crash
              \/ \E i \in DOMAIN report.registry :
                    \/ report.registry[i].severity = "FATAL"
                    \/ report.registry[i].rule \in CrashClassRules
        /\ crashSeen => report.classification = "CRASH"

\* What the executive summary claims without evidence.
Beyond ==
    NarrativeClaims(report.summary) \ EvidenceDomains(RulesIn(report.registry) \cup findings)

\* A summary that claims a domain without evidence is marked as not valid, quotes
\* the claim from the report's root cause or factors, and owes it to the rules'
\* own words for the anomaly that the cause is anchored to. The cases where it
\* owes the claim to a model are named: POWER, which the checks of the cause and
\* the factors do not know; nothing was detected; no investigator named a cause.
SummaryContained ==
    report # Nothing /\ Beyond # {} =>
        /\ ~report.valid
        /\ Beyond \subseteq report.root \cup (UNION {f.text : f \in report.factors})
        /\ \/ \E i \in DOMAIN anomalies :
                 /\ cause # Nothing /\ cause.anchor = anomalies[i]
                 /\ Beyond \ {"POWER"} \subseteq Described(anomalies[i])
           \/ Beyond = {"POWER"}
           \/ anomalies = <<>>
           \/ cause = Nothing \/ cause.text = {}
=============================================================================
