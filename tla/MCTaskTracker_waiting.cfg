CONSTANTS
    Chunks = 2
    MaxRetries = 2
    StaleAfter = 15
    AnnounceEvery = 5
    MaxLost = 2
    MaxChains = 3
    MaxFaults = 4
SPECIFICATION FairSpec
PROPERTY FinishedIsComplete
