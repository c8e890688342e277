SPECIFICATION FairSpec
CONSTANTS
    Users = {ann, ben}
    None = None
    MaxTokens = 5
CHECK_DEADLOCK FALSE
INVARIANTS
    OneLivePerChain
    HeldTokenWorks
PROPERTY CallsEnd
