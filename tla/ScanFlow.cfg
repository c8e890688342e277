SPECIFICATION FlowSpec
CONSTANTS
    c1 = c1
    v1 = v1
    v2 = v2
    Nothing = Nothing
    ContainerNos = {c1}
    VinNos = {v1, v2}
    MaxShots = 2
    MaxSessions = 2
INVARIANTS
    ReadMeansRead
    EvidenceFits
