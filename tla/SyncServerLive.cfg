SPECIFICATION FairSpec
CONSTANTS
    v1 = v1
    v2 = v2
    m = m
    boxA = boxA
    boxB = boxB
    yard = yard
    depot = depot
    None = None
    Vins = {v1, v2, m}
    Containers = {boxA, boxB}
    Confidence <- MCConfidence
    Sessions = {s1, s2}
    Handlers = {h1, h2}
    Locations = {yard, depot}
    Assigned = {yard}
    References = {"do1"}
    Deliveries <- MCDeliveries
    Payloads <- Oddments
    Subscribed <- MCSubscribed
    MaxCrashes = 1
    MaxEvents = 2
CHECK_DEADLOCK FALSE
PROPERTIES
    ImplementsBoard
    NotesSettle
    RequestsFinish
