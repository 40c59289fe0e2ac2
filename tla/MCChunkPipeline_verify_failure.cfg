CONSTANTS
    NumChunks = 2
    ChunkSize <- AlignedSize
    ChunkOffset <- AlignedOffset
    FileSize = 6
    SubBlockSize = 2
    NumIOWorkers = 2
    IOWorkers <- MCIOWorkers
    Worker <- XorRoute
    VerifyWorkers = {v1}
    RingSize = 4
    MaxQueue = 1
    MaxBad = 1
SPECIFICATION FairSpec
PROPERTY FailedChunkRecovers
