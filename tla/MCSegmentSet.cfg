SPECIFICATION Spec
CONSTANTS
    d1 = d1
    d2 = d2
    Supplies <- MCSupplies
    Chunk <- MCChunk
    Value = {d1, d2}
    None = None
    NoMedia = NoMedia
    MaxInt64 = 127
INVARIANTS SetInv OpenedIsWhole NeverCiphertext StrictIsVerified ChunksInOrder FirstWins RefusalIsDeserved
CHECK_DEADLOCK FALSE
