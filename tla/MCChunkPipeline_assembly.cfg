CONSTANTS
    NumChunks = 3
    ChunkSize <- CutSize
    ChunkOffset <- CutOffset
    FileSize = 6
    SubBlockSize = 2
    NumIOWorkers = 2
    IOWorkers <- MCIOWorkers
    Worker <- XorRoute
    VerifyWorkers = {v1, v2}
    RingSize = 4
    MaxQueue = 1
    MaxBad = 0
SPECIFICATION FairSpec
INVARIANTS TypeOK AnnouncedOnce AnnouncedIsWritten OneWriterPerSubBlock
           PendingCountExact
PROPERTIES CompletionSpec SerialEnqueueDelivers WholeChunksHashed
