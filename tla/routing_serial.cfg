SPECIFICATION Spec
CONSTANTS
    Requests = {r1, r2, r3}
    Bodies <- SerialBodies
    Creations <- MCCreations
    MaxActive = 1
    NoLabel = NoLabel
    Omitted = Omitted
INVARIANTS
    RulesResolve
    LabelsUnique
PROPERTIES
    DeleteIsRefusedInUse
    ChildrenOverwritten
CHECK_DEADLOCK FALSE
