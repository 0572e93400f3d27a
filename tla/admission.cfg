\* Three requests over three ticks, handlers that stall for a tick, one fault.
CONSTANTS
    r1 = r1
    r2 = r2
    r3 = r3
    k1 = k1
    c1 = c1
    c2 = c2
    f1 = f1
    NoKey = NoKey
    NoFlight = NoFlight
    Requests <- RequestsDef
    Keys <- KeysDef
    Clients <- ClientsDef
    KeyOf <- KeyOfDef
    Flights <- FlightsDef
    Limit <- LimitDef
    Window <- WindowDef
    MaxStall = 1
    MaxTime = 2
    MaxFaults = 1
SPECIFICATION Spec
INVARIANTS TypeOK QuotaBound CountersExpire RowsJustified
SYMMETRY Symmetry
CHECK_DEADLOCK FALSE
