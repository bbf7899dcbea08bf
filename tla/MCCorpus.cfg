SPECIFICATION Spec
CONSTANTS
    Names = {"case", "e6", "ex", "old"}
    Args <- MCArgs
    Variants <- MCVariants
    InitialManifests <- MCInitialManifests
    MaxSegments = 2
    MaxRuns = 2
    NoFile = NoFile
    Fragment = Fragment
    None = None
INVARIANT FreshAreOnDisk
INVARIANT NoSilentLoss
CHECK_DEADLOCK FALSE
