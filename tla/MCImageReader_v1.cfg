SPECIFICATION Spec
CONSTANTS
    s1 = s1
    s2 = s2
    r1 = r1
    r2 = r2
    Media <- MediaV1
    NoMedia = NoMedia
    MaxInt64 = 127
    ChunkCacheChunks = 3
    DefaultChunkCacheChunks = 16
    MaxChunkCacheBytes = 11
    Byte <- MCByte
    Sources <- SourcesV1
    FirstSource = s1
    NilSource = NilSource
    chunkTable <- TableV1
    TrailerSize = 1
    StoredSlack = 2
    MaxReadSize = 100
    Inflate <- MCInflate
    Acquired <- MCAcquired
    Left <- MCLeft
    Readers = {r1, r2}
    Calls <- CallsV1
    NoCall = NoCall
    NoAnswer = NoAnswer
SYMMETRY Alike
INVARIANTS ReaderInv ReturnsAcquired NothingWithheld
PROPERTY ImplementsBlockDevice
