CONSTANTS
    FileSize = 11
    MinSize = 2
    MaxSize = 3
    MaxChunkSize = 3
    SegmentSize = 4
    MaxAdds = 3
SPECIFICATION Spec
INVARIANTS TypeOK ChunksTile EveryChunkPlaced BasesStayRight
PROPERTIES CompleteIsOnDisk RestartKeepsData
CHECK_DEADLOCK FALSE
