\* Bucket uploads, two API processes, two pool slots, one flight.
CONSTANTS
    f1 = f1  f2 = f2  l1 = l1  l2 = l2
    r1 = r1  r2 = r2  w1 = w1  w2 = w2
    Flights = {f1}
    Logs = {l1}
    LogOf <- OneLog
    Replicas = {r1, r2}
    Workers = {w1, w2}
    GcsMode = TRUE
    MaxRetries = 1
    MaxFaults = 1
    NoFlight = NoFlight
    NoHash = NoHash
SPECIFICATION Spec
SYMMETRY Symmetric
INVARIANTS TypeOK Accounted ErrorIsDeadLettered ReadyComplete
CHECK_DEADLOCK FALSE
