SPECIFICATION SharedSpec
CONSTANTS
    None = None
    Vins <- MCVins
    Containers = {boxA, boxB}
    Confidence <- MCConfidence
CHECK_DEADLOCK FALSE
INVARIANTS
    MatchIsUnambiguous
    ProgressAgreesWithComplete
    StaleLoadedIsOptimistic
    ExactRescanIsCaught
    ProposalIsThePlate
    DistanceIsExact
