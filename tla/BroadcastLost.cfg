SPECIFICATION FairSpec
CONSTANTS
    Docs = {d1}
    Files = {f1, f2}
    Handlers = {h1}
    Workers = {w1}
    None = none
    MaxRetries = 0
    Faults = {"worker_crash"}
    MaxFaults = 1
    MaxLinks = 0
PROPERTY
    StatusBroadcast
CHECK_DEADLOCK FALSE
