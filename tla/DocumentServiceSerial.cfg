SPECIFICATION FairSpec
CONSTANTS
    Docs = {d1}
    Files = {f1, f2}
    Handlers = {h1}
    Workers = {w1, w2}
    None = none
    MaxRetries = 1
    Faults = {"storage", "lost_reply", "broker"}
    MaxFaults = 2
    MaxLinks = 1
INVARIANTS
    ContentMatches
PROPERTIES
    StatusBroadcast
    RefinesDocumentedLifecycle
CHECK_DEADLOCK FALSE
