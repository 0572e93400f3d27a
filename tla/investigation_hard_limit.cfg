\* One investigation, killed by the hard time limit.
CONSTANTS
    i1 = i1  i2 = i2  w1 = w1  w2 = w2  c1 = c1  c2 = c2
    Investigations = {i1}
    Workers = {w1}
    Clients = {c1}
    MaxRetries = 1
    MaxFaults = 1
    NoInv = NoInv
SPECIFICATION Spec
INVARIANTS HardLimitCleanedUp
CHECK_DEADLOCK FALSE
