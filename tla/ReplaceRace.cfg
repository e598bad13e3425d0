SPECIFICATION FairSpec
CONSTANTS
    Docs = {d1}
    Files = {f1, f2, f3}
    Handlers = {h1, h2}
    Workers = {w1}
    None = none
    MaxRetries = 0
    Faults = {}
    MaxFaults = 0
    MaxLinks = 0
PROPERTY
    RefinesDocumentedLifecycle
CHECK_DEADLOCK FALSE
