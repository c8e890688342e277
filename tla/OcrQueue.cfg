SPECIFICATION FairSpec
CONSTANTS
    d1 = d1
    d2 = d2
    h1 = h1
    h2 = h2
    Docs <- MCDocs
    Hashes = {h1, h2}
    Uploads <- MCUploads
    Passes = {interval, manual}
    None = None
    MaxOcrAttempts = 2
    MaxOcrPolls = 3
    Limit = 2
    MaxJobs = 2
    MaxEvents = 1
INVARIANTS TextIsOwn StuckOnlyByCrash OneOpenJob
PROPERTIES FinishedStaysFinished JobsSettle
