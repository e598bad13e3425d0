SPECIFICATION Spec
CONSTANTS
    Docs = {d1}
    Files = {f1, f2}
    Handlers = {h1, h2}
    Workers = {w1, w2}
    None = none
    MaxRetries = 1
    Faults = {"storage", "worker_crash"}
    MaxFaults = 2
    MaxLinks = 1
SYMMETRY Symmetry
INVARIANTS
    PendingDriven
    ReadyHasObject
CHECK_DEADLOCK FALSE
