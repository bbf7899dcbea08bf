SPECIFICATION LRUSpec
CONSTANTS
    c1 = c1
    c2 = c2
    c3 = c3
    c4 = c4
    x = x
    y = y
    Numbers <- MCNumbers
    Contents <- MCContents
    Media <- MCMedia
    NoMedia = NoMedia
    MaxInt64 = 127
    ChunkCacheChunks = 5
    DefaultChunkCacheChunks = 16
    MaxChunkCacheBytes = 11
    MaxUses = 6
SYMMETRY MCSymmetry
INVARIANTS LRUInv RecentlyUsedStay
CHECK_DEADLOCK FALSE
