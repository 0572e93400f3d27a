\* One investigation, two pool slots, two streams, two faults.
CONSTANTS
    i1 = i1  i2 = i2  w1 = w1  w2 = w2  c1 = c1  c2 = c2
    Investigations = {i1}
    Workers = {w1, w2}
    Clients = {c1, c2}
    MaxRetries = 1
    MaxFaults = 2
    NoInv = NoInv
SPECIFICATION Spec
SYMMETRY Symmetric
INVARIANTS TypeOK Accounted StreamTruthful InsertedOnce
CHECK_DEADLOCK FALSE
