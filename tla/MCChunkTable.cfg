SPECIFICATION Spec
CONSTANTS
    Files <- MCFiles
    Half = 64
    HeaderSize = 2
    EntrySize = 1
    ChecksumSize = 1
    MaxTableEntries = 5
    MaxInt64 = 127
    DescriptorSize = 1
INVARIANT TypeOK
INVARIANT LayoutRecovered
INVARIANT VerifiedIsWritten
INVARIANT StatsTell
CHECK_DEADLOCK FALSE
