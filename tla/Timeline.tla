------------------------------ MODULE Timeline ------------------------------
(***************************************************************************)
(* pipeline/event_extractor.py and pipeline/phase_detector.py: the events  *)
(* of a flight, its event horizon and its phases.  An event keeps its      *)
(* time, type and severity; the name a phase gets from its flight mode and *)
(* from the altitude, and its notes, are left out.                         *)
(***************************************************************************)
EXTENDS Rules, Ordering, SequencesExt

Event(t, type, severity) == [time |-> t, type |-> type, severity |-> severity]
Serious == {"CRITICAL", "FATAL"}

ModeChanges ==
    {Event(Mode[i].t, "MODE_CHANGE",
           IF Mode[i].reason \in {1, 2} THEN "INFO" ELSE "WARNING") :
        i \in {j \in 2..Len(Mode) : Mode[j].mode # Mode[j - 1].mode}}

\* Error code 0 is the end of an error.
ErrorSeverity(err) ==
    IF err.ecode = 0 THEN "INFO"
    ELSE IF err.subsys \in {6, 7, 8, 16, 17, 24} THEN "CRITICAL" ELSE "WARNING"

Errors ==
    {Event(Rows("ERR")[i].t, "ERROR", ErrorSeverity(Rows("ERR")[i])) : i \in DOMAIN Rows("ERR")}

\* A vehicle counts as armed in every mode that has a name.
IsArmed(i) == i > 0 /\ Mode[i].mode \notin {"INITIALISING", "unnamed"}

ArmEvents ==
    {Event(Mode[i].t, "ARM", "INFO") :
        i \in {j \in DOMAIN Mode : IsArmed(j) /\ ~IsArmed(j - 1)}}
    \cup
    {Event(Mode[i].t, "DISARM", "INFO") :
        i \in {j \in DOMAIN Mode : ~IsArmed(j) /\ IsArmed(j - 1)}}

\* Variant for mutation: strictly more than four, as the rule's docstring has it.
MoreLost(lost) == lost > 4

\* The number of satellites lost between two samples that makes an event.
ManyLost(lost) == lost >= 4

GpsEvents ==
    LET was(i) == GPS[i - 1]
        is(i)  == GPS[i]
    IN  {Event(GPS[i].t, "GPS_FIX_DEGRADED", IF is(i).fix < 2 THEN "CRITICAL" ELSE "WARNING") :
            i \in {j \in 2..Len(GPS) : is(j).fix < was(j).fix}}
        \cup
        {Event(GPS[i].t, "GPS_SAT_DROP", "CRITICAL") :
            i \in {j \in 2..Len(GPS) : ManyLost(was(j).sats - is(j).sats)}}
        \cup
        {Event(GPS[i].t, "GPS_HDOP_SPIKE", "WARNING") :
            i \in {j \in 2..Len(GPS) : is(j).hdop > 20 /\ was(j).hdop <= 20}}

\* The first sample tilted by more than 60 degrees, recovered from or not.
CrashIndicator ==
    LET att == Rows("ATT")
        extreme == {i \in DOMAIN att : att[i].tilt > 60}
    IN  IF extreme = {} THEN {} ELSE {Event(att[Min(extreme)].t, "CRASH_DETECTED", "FATAL")}

ParameterChanges ==
    LET parm == Rows("PARM")
    IN  {Event(parm[i].t, "PARAM_CHANGE", "INFO") :
            i \in {j \in DOMAIN parm : parm[j].t > parm[1].t + 10 * Second}}

AllEvents ==
    UNION {ModeChanges, Errors, ArmEvents, GpsEvents, CrashIndicator, ParameterChanges}

TimeOf(e) == <<e.time, 0>>
Sorted(events) == SortBy(SetToSeq(events), TimeOf)

\* Variant for mutation: the events of the channels one after the other.
UnsortedEvents ==
    SetToSeq(ModeChanges) \o SetToSeq(Errors) \o SetToSeq(ArmEvents) \o SetToSeq(GpsEvents)
        \o SetToSeq(CrashIndicator) \o SetToSeq(ParameterChanges)

\* EventExtractor.extract
Events == Sorted(AllEvents)

NoTime == 0

\* The last INFO event before the first serious one.
EventHorizon ==
    LET events  == Events
        serious == Subsequence(events, {i \in DOMAIN events : events[i].severity \in Serious})
        nominal == Subsequence(events,
                       {i \in DOMAIN events : events[i].severity = "INFO"
                                               /\ events[i].time < serious[1].time})
    IN  IF serious = <<>> \/ nominal = <<>> THEN NoTime ELSE Last(nominal).time

-----------------------------------------------------------------------------
FirstTime(type) ==
    LET events == Events
        found  == Subsequence(events, {i \in DOMAIN events : events[i].type = type})
    IN  IF found = <<>> THEN NoTime ELSE found[1].time

Phase(name, from, to) == [name |-> name, start |-> from, end |-> to]

PreArm ==
    IF FirstTime("ARM") > Mode[1].t THEN <<Phase("PRE_ARM", Mode[1].t, FirstTime("ARM"))>>
    ELSE <<>>

\* Variant for mutation: the crash is asked for first.
PhaseEndCrashFirst(i) ==
    IF FirstTime("CRASH_DETECTED") # NoTime THEN FirstTime("CRASH_DETECTED")
    ELSE IF i < Len(Mode) THEN Mode[i + 1].t ELSE Mode[i].t

\* A mode lasts until the next MODE row; the last one until the crash, if any.
PhaseEnd(i) ==
    IF i < Len(Mode) THEN Mode[i + 1].t
    ELSE IF FirstTime("CRASH_DETECTED") # NoTime THEN FirstTime("CRASH_DETECTED")
    ELSE Mode[i].t

ModePhases ==
    FlattenSeq([i \in DOMAIN Mode |->
        IF Mode[i].mode = "INITIALISING" THEN <<>>
        ELSE <<Phase(Mode[i].mode, Mode[i].t, PhaseEnd(i))>>])

CrashPhase ==
    LET crash == FirstTime("CRASH_DETECTED")
    IN  IF crash = NoTime THEN <<>> ELSE <<Phase("CRASH", crash, crash + 5 * Second)>>

\* Without MODE rows one phase from the first to the last attitude sample.
SinglePhase ==
    LET att == Rows("ATT")
    IN  IF att = <<>> THEN <<>> ELSE <<Phase("UNKNOWN", att[1].t, Last(att).t)>>

\* PhaseDetector.detect
Phases == IF Mode = <<>> THEN SinglePhase ELSE PreArm \o ModePhases \o CrashPhase

-----------------------------------------------------------------------------
\* The horizon is the latest nominal moment before anything went wrong in any
\* channel, whatever the order in which the channels were read.
HorizonExact ==
    LET serious == {e.time : e \in {f \in AllEvents : f.severity \in Serious}}
        nominal == {e.time : e \in {f \in AllEvents :
                       f.severity = "INFO" /\ \A t \in serious : f.time < t}}
    IN  EventHorizon = IF serious = {} \/ nominal = {} THEN NoTime ELSE Max(nominal)

\* As long as no attitude extreme precedes the last MODE row, the phases follow
\* one another without overlap and every mode segment of the log lies in one.
\* (One that does makes the last phase end before it starts.)
PhasesTile ==
    LET crash  == FirstTime("CRASH_DETECTED")
        phases == Phases
    IN  Mode # <<>> /\ (crash = NoTime \/ crash >= Last(Mode).t) =>
            /\ \A k \in DOMAIN phases : phases[k].start <= phases[k].end
            /\ \A j, k \in DOMAIN phases : j < k => phases[j].end <= phases[k].start
            /\ \A i \in 1..(Len(Mode) - 1) :
                  \E k \in DOMAIN phases :
                      phases[k].start <= Mode[i].t /\ Mode[i + 1].t <= phases[k].end

\* The rules and the event timeline are written apart and read the same rows:
\* what a rule finds about satellites, failsafes and arming is in the timeline
\* at the same time.
Witness ==
    [GPS_SAT_COUNT_DROP |-> "GPS_SAT_DROP", FAILSAFE_VERIFY |-> "ERROR", UNSAFE_ARM |-> "ARM"]

FindingsInTimeline ==
    \A f \in Findings : f.rule \in DOMAIN Witness =>
        \E e \in AllEvents : e.type = Witness[f.rule] /\ e.time = f.time
=============================================================================
