SPECIFICATION Spec
CONSTANTS
    Files <- SpellingFiles
    FirstOffset = 1
    DescriptorSize = 1
    HeaderSize = 1
    MaxSections = 5
    HalfWord = 64
    Sizes <- MCSizes
    MaxPayload = 6
    MaxCount = 2
    Word32 = 16
    Decimal <- MCDecimal
    MinInstant = 5
    WallClock <- MCWallClock
    Hex <- MCHex
    None = None
INVARIANT DocumentedPrecedence
CHECK_DEADLOCK FALSE
