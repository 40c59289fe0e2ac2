CONSTANTS
    NumChunks = 2
    SubBlocks <- Ones
    Resumed = {1}
    Bitfields <- Seeds
    Speeds = {1000}
    Latencies = {0}
    InitialCap = 2
    PipelineMin = 1
    PipelineMax = 2
    SeedCap = 32
    TimeoutLimit = 2
    EndgameThreshold = 2
    MaxEndgameChunks = 32
    MaxRedundantPeers = 2
    MaxConns = 2
    MaxFaults = 2
SPECIFICATION MCSpec
INVARIANTS TypeOK AvailabilityCoversHolders RequestCountNeverHides ActiveListExact PhaseExact RequestedHasOwner
PROPERTIES RequestsWellAimed CompleteIsFinal
