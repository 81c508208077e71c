SPECIFICATION ChunkSpec
CONSTANTS
    Lengths <- SmallLengths
    ChunkSizes <- SmallSizes
    ChunkOverlaps <- SmallOverlaps
    Batch = 3
INVARIANTS WholeTextIsStored ChunksAdvance NeighboursOverlap OwnVectors ChunkCount
\* The worker is done with the text.
CHECK_DEADLOCK FALSE
