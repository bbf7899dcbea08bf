SPECIFICATION FairSpec
CONSTANTS
    s1 = s1
    s2 = s2
    r1 = r1
    r2 = r2
    Media <- MediaV2
    NoMedia = NoMedia
    MaxInt64 = 127
    ChunkCacheChunks <- CacheOff
    DefaultChunkCacheChunks = 16
    MaxChunkCacheBytes = 11
    Byte <- MCByte
    Sources <- SourcesV2
    FirstSource = s1
    NilSource = NilSource
    chunkTable <- TableV2
    TrailerSize = 1
    StoredSlack = 2
    MaxReadSize = 100
    Inflate <- MCInflate
    Acquired <- MCAcquired
    Left <- MCLeft
    Readers = {r1, r2}
    Calls <- CallsV2
    NoCall = NoCall
    NoAnswer = NoAnswer
INVARIANTS ReturnsAcquired NothingWithheld
PROPERTY EveryCallAnswered
