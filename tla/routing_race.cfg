SPECIFICATION Spec
CONSTANTS
    Requests = {r1, r2}
    Bodies <- RaceBodies
    Creations <- OnlyUnruled
    MaxActive = 2
    NoLabel = NoLabel
    Omitted = Omitted
PROPERTIES
    DeleteIsRefusedInUse
CHECK_DEADLOCK FALSE
