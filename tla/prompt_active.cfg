SPECIFICATION FairSpec
CONSTANTS
    v1 = v1
    v2 = v2
    v3 = v3
    v4 = v4
    Versions = {v1, v2, v3, v4}
    ScopeOf <- TwoScopes
    Initial = {v1, v2}
    Requests = {r1, r2, r3}
    Creators = {r1}
    None = None
INVARIANTS
    AtMostOneActive
PROPERTIES
    ScopeIsolated
    OnlyActivatedOnPurpose
    RequestsEnd
CHECK_DEADLOCK FALSE
