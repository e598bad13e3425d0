SPECIFICATION FairSpec
CONSTANTS
    Docs = {d1}
    Files = {f1, f2}
    Handlers = {h1}
    Workers = {w1}
    None = none
    MaxRetries = 0
    Faults = {}
    MaxFaults = 0
    MaxLinks = 0
INVARIANT
    DeleteRemovesObject
CHECK_DEADLOCK FALSE
