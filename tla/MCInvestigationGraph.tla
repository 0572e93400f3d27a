------------------------ MODULE MCInvestigationGraph ------------------------
(* A small instance of InvestigationGraph for TLC: three domain agents, four  *)
(* flights.                                                                   *)
EXTENDS InvestigationGraph, TLC

Fires(rule, time, severity) == [rule |-> rule, time |-> time, severity |-> severity]

AgentsDef == {"PowerSystemAgent", "MissionBehaviorAgent", "ParameterDriftAgent"}
RuleOrderDef == <<"PowerSystemAgent", "MissionBehaviorAgent">>

Flight(power, mission, parameters, crash) ==
    [emits |-> ("PowerSystemAgent" :> power) @@ ("MissionBehaviorAgent" :> mission)
                   @@ ("ParameterDriftAgent" :> parameters),
     crash |-> crash]

LogsDef ==
    {\* A sag that is a warning and critical at once; two parameters out of range.
     Flight(<<Fires("BAT_VOLTAGE_SAG", 1, "WARNING"), Fires("BAT_VOLTAGE_SAG", 1, "CRITICAL")>>,
            <<>>,
            <<Fires("PARAM_OUT_OF_RANGE", 0, "WARNING"), Fires("PARAM_OUT_OF_RANGE", 0, "CRITICAL")>>,
            FALSE),
     \* Descriptions that claim other domains than their rules'.
     Flight(<<Fires("BAT_CURRENT_SPIKE", 2, "WARNING")>>, <<Fires("UNSAFE_ARM", 1, "WARNING")>>,
            <<>>, FALSE),
     \* A nominal flight, and a crash that no rule has noticed.
     Flight(<<>>, <<>>, <<>>, FALSE),
     Flight(<<>>, <<>>, <<Fires("PARAM_OUT_OF_RANGE", 0, "CRITICAL")>>, TRUE)}

TextsDef == {{}, {"RC", "POWER"}, {"sacc"}}

CitationsDef == {{"BAT_VOLTAGE_SAG"}, {"GPSIntegrityAgent", "PowerSystemAgent"}, {"UNSAFE_ARM"}}
=============================================================================
