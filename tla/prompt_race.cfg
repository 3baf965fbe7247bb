SPECIFICATION Spec
CONSTANTS
    v1 = v1
    v2 = v2
    v3 = v3
    v4 = v4
    Versions = {v1, v2, v3, v4}
    ScopeOf <- TwoScopes
    Initial = {v1, v4}
    Requests = {r1, r2}
    Creators = {r1, r2}
    None = None
INVARIANTS
    AtMostOneActive
CHECK_DEADLOCK FALSE
