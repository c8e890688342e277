SPECIFICATION Spec
CONSTANTS
    v1 = v1
    v2 = v2
    box = box
    s1 = s1
    s2 = s2
    None = None
    Vins = {v1, v2}
    Containers = {box}
    Confidence <- MCConfidence
    Captures = {s1, s2}
    Pairs <- MCPairs
    Refused = {s2}
    Versions <- Reissued
    Batch = 1
    MaxKills = 1
CHECK_DEADLOCK FALSE
INVARIANTS
    NoVerdictOnPartialCache
