SPECIFICATION Spec
CONSTANTS
    c1 = c1
    c2 = c2
    p1 = p1
    p2 = p2
    t1 = t1
    t2 = t2
    Containers = {c1, c2}
    Processes = {p1, p2}
    Threads = {t1, t2}
    Keys = {k1}
    NoThread = NoThread
    Absent = Absent
    PublicEndpoint = TRUE
    MaxStorageFaults = 1
    MaxDeaths = 1
    Placements <- MCPlacements
    ContainerOf <- MCContainerOf
    InitialDatabases <- MCInitialDatabases
INVARIANTS BootTypeOK RolesExact ServingAdmin AdminGetsPassword
    StorageTypeOK ReadyMeansPrivate LocksHeldInside
PROPERTIES AdminPasswordKept ClientsKept RefinesPrivateBucket
    StartupCompletes UploadsSucceed
