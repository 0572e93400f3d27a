\* Direct uploads of one log twice, two API processes, one pool slot, one fault.
CONSTANTS
    f1 = f1  f2 = f2  l1 = l1  l2 = l2
    r1 = r1  r2 = r2  w1 = w1  w2 = w2
    Flights = {f1, f2}
    Logs = {l1}
    LogOf <- SameLog
    Replicas = {r1, r2}
    Workers = {w1}
    GcsMode = FALSE
    MaxRetries = 1
    MaxFaults = 1
    NoFlight = NoFlight
    NoHash = NoHash
SPECIFICATION FairSpec
INVARIANTS ReadyComplete ReadyOnce
PROPERTIES Settles
CHECK_DEADLOCK FALSE
