SPECIFICATION Spec
CONSTANTS
    s1 = s1
    s2 = s2
    s3 = s3
    s4 = s4
    c1 = c1
    c2 = c2
    None = None
    Sockets = {s1, s2, s3, s4}
    Authorised = {s1, s2, s3}
    Campaigns = {c1}
    CampaignOf <- OneCampaign
    Faults = {"unsubscribe"}
    MaxEvents = 2
SYMMETRY Peers
INVARIANTS
    TypeOK
    HandleIsPending
    IdleIsStopping
    NoLostEvent
PROPERTIES
    FirstConnectIsServed
CHECK_DEADLOCK FALSE
