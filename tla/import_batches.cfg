SPECIFICATION Spec
CONSTANTS
    RowKinds = {"good", "bad", "short", "refused"}
    MaxRows = 3
    BatchSize = 2
INVARIANTS
    CommitsEachBatch
CHECK_DEADLOCK FALSE
