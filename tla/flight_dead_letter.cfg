\* One bucket upload, no fault but the transient errors the task retries.
CONSTANTS
    f1 = f1  f2 = f2  l1 = l1  l2 = l2
    r1 = r1  r2 = r2  w1 = w1  w2 = w2
    Flights = {f1}
    Logs = {l1}
    LogOf <- OneLog
    Replicas = {r1}
    Workers = {w1}
    GcsMode = TRUE
    MaxRetries = 2
    MaxFaults = 0
    NoFlight = NoFlight
    NoHash = NoHash
SPECIFICATION Spec
INVARIANTS DeadLetterAfterMaxRetries
CHECK_DEADLOCK FALSE
