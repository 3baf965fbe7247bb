SPECIFICATION FairSpec
CONSTANTS
    Requests = {r1, r2}
    Bodies <- LockBodies
    Creations <- OnlyCreated
    MaxActive = 2
    NoLabel = NoLabel
    Omitted = Omitted
INVARIANTS
    TypeOK
PROPERTIES
    RequestsEnd
CHECK_DEADLOCK FALSE
