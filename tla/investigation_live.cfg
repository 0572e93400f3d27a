\* Two investigations, one pool slot, one stream, one fault.
CONSTANTS
    i1 = i1  i2 = i2  w1 = w1  w2 = w2  c1 = c1  c2 = c2
    Investigations = {i1, i2}
    Workers = {w1}
    Clients = {c1}
    MaxRetries = 1
    MaxFaults = 1
    NoInv = NoInv
SPECIFICATION FairSpec
PROPERTIES Settles EarlyStreamsEnd ContractKept
CHECK_DEADLOCK FALSE
