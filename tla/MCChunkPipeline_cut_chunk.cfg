CONSTANTS
    NumChunks = 2
    ChunkSize <- InnerSize
    ChunkOffset <- InnerOffset
    FileSize = 5
    SubBlockSize = 2
    NumIOWorkers = 2
    IOWorkers <- MCIOWorkers
    Worker <- XorRoute
    VerifyWorkers = {v1}
    RingSize = 4
    MaxQueue = 1
    MaxBad = 0
SPECIFICATION FairSpec
PROPERTY EveryChunkCompletes
