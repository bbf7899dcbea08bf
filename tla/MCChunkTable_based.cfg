SPECIFICATION Spec
CONSTANTS
    Files <- BasedFiles
    Half = 64
    HeaderSize = 2
    EntrySize = 1
    ChecksumSize = 1
    MaxTableEntries = 5
    MaxInt64 = 127
    DescriptorSize = 1
INVARIANT RoomIsEnough
CHECK_DEADLOCK FALSE
