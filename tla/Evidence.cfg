SPECIFICATION FairSpec
CONSTANTS
    s1 = s1
    None = None
    Sessions = {s1}
    Images = {i1}
    SessionOf <- MCSessionOf
    MaxAttempts = 3
    MaxDeaths = 2
CHECK_DEADLOCK FALSE
INVARIANTS
    EvidenceNotLost
    SyncedMeansDeclared
PROPERTIES
    SessionsArrive
    ImagesSettle
