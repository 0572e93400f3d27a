\* Three domain agents, four flights, one factor, three sentences.
CONSTANTS
    Agents <- AgentsDef
    RuleOrder <- RuleOrderDef
    Logs <- LogsDef
    Texts <- TextsDef
    Citations <- CitationsDef
    Nothing = Nothing
SPECIFICATION Spec
INVARIANTS TypeOK MergeComplete SeverestKept FactorsGrounded CauseAnchored CrashJustified SummaryContained
CHECK_DEADLOCK FALSE
