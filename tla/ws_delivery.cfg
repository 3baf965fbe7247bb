SPECIFICATION FairSpec
CONSTANTS
    s1 = s1
    s2 = s2
    s3 = s3
    s4 = s4
    c1 = c1
    c2 = c2
    None = None
    Sockets = {s1, s2}
    Authorised = {s1, s2}
    Campaigns = {c1}
    CampaignOf <- Pair
    Faults = {"subscribe", "listen"}
    MaxEvents = 3
PROPERTIES
    FeedSpec
    OwedIsDelivered
CHECK_DEADLOCK FALSE
