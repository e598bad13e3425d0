SPECIFICATION FairSpec
CONSTANTS
    Docs = {d1}
    Files = {f1, f2}
    Handlers = {h1}
    Workers = {w1}
    None = none
    MaxRetries = 0
    Faults = {"storage", "broker"}
    MaxFaults = 2
    MaxLinks = 0
PROPERTY
    FailedUploadsReconciled
CHECK_DEADLOCK FALSE
