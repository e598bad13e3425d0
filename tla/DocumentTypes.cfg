SPECIFICATION Spec
CONSTANTS
    t1 = t1
    t2 = t2
    c1 = c1
    c2 = c2
    Types = {t1, t2}
    Docs = {d1}
    Clients = {c1, c2}
    Seeders = {k1}
    None = None
    Actors <- MCActors
    Bodies <- MCBodies
    Uploads <- MCUploads
    InitTypes <- MCInitTypes
INVARIANTS TypeOK TypesUsableUnlessSeeded AcceptedFilesGenuine DocumentsTyped EditorsStoreImages
PROPERTY WritesFitType
SYMMETRY MCSymmetry
CHECK_DEADLOCK FALSE
