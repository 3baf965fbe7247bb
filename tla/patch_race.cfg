SPECIFICATION Spec
CONSTANTS
    Stored = {x}
    Requests = {r1, r2}
    Columns = {a, b}
    Values = {0, 1}
    Absent = Absent
PROPERTIES
    FieldSetReplaces
CHECK_DEADLOCK FALSE
