\* Bucket uploads of one log twice, one API process, two pool slots, no fault.
CONSTANTS
    f1 = f1  f2 = f2  l1 = l1  l2 = l2
    r1 = r1  r2 = r2  w1 = w1  w2 = w2
    Flights = {f1, f2}
    Logs = {l1}
    LogOf <- SameLog
    Replicas = {r1}
    Workers = {w1, w2}
    GcsMode = TRUE
    MaxRetries = 1
    MaxFaults = 0
    NoFlight = NoFlight
    NoHash = NoHash
SPECIFICATION Spec
PROPERTIES ContractKept
CHECK_DEADLOCK FALSE
