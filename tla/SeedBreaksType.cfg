SPECIFICATION Spec
CONSTANTS
    t1 = t1
    t2 = t2
    c1 = c1
    c2 = c2
    Types = {t1}
    Docs = {d1}
    Clients = {c1}
    Seeders = {k1}
    None = None
    Actors <- MCAdministrator
    Bodies <- MCBodies
    Uploads <- MCUploads
    InitTypes <- MCInitTypes
INVARIANT TypesUsable
CHECK_DEADLOCK FALSE
