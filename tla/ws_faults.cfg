SPECIFICATION FairSpec
CONSTANTS
    s1 = s1
    s2 = s2
    s3 = s3
    s4 = s4
    c1 = c1
    c2 = c2
    None = None
    Sockets = {s1, s2, s3}
    Authorised = {s1, s2, s3}
    Campaigns = {c1, c2}
    CampaignOf <- TwoCampaigns
    Faults = {"subscribe", "listen"}
    MaxEvents = 0
INVARIANTS
    SingleSubscriber
    ServedWhileOpen
    ShutdownIsFinal
PROPERTIES
    NoHandlerStuck
    IdleIsStopped
    Unsubscribed
CHECK_DEADLOCK FALSE
