SPECIFICATION FairSpec
CONSTANTS
    Docs = {d1}
    Files = {f1, f2}
    Handlers = {h1}
    Workers = {w1, w2}
    None = none
    MaxRetries = 1
    Faults = {"storage", "worker_crash", "redelivery"}
    MaxFaults = 2
    MaxLinks = 0
PROPERTIES
    EventuallyStored
    FailedRetried
CHECK_DEADLOCK FALSE
