SPECIFICATION FairSpec
CONSTANTS
    Name = {a, b}
    NoName = noname
    Tool = {t}
    MaxClients = 2
    MaxNotices = 2
    Buffer = 1
INVARIANTS
    StaleIsTold
    RegistrationsAreDisjoint
PROPERTIES
    CatalogCatchesUp
    RemovedIsReleased
CHECK_DEADLOCK FALSE
