SPECIFICATION Spec
CONSTANTS
    Docs = {d1}
    Files = {f1, f2}
    Handlers = {h1, h2}
    Workers = {w1, w2}
    None = none
    MaxRetries = 1
    Faults = {"storage", "lost_reply", "database", "broker", "redis", "handler_crash", "worker_crash", "reconcile_crash"}
    MaxFaults = 2
    MaxLinks = 0
SYMMETRY Symmetry
INVARIANTS
    TypeOK
    RowConsistent
    AuditMatchesRow
PROPERTIES
    StagedFileKept
    RefinesLifecycle
CHECK_DEADLOCK FALSE
