SPECIFICATION Spec
CONSTANTS
    None = None
    Documents <- MCDocuments
    max_chars = 5
    min_chunk_chars = 3
INVARIANTS
    ChunkerInv
    ContentKept
    ChunksFit
    ChunkUnderItsHeading
CHECK_DEADLOCK FALSE
