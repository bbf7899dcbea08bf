SPECIFICATION FairSpec
CONSTANTS
    v = v
    Readers = {v}
    verifier = v
    NoCall = NoCall
    NoAnswer = NoAnswer
    NoDigest = NoDigest
    Calls <- MCCalls
    Size = 8
    step = 3
    Zero = 0
    Content <- Damaged
    MD5s <- RecordedMD5
    SHA1s <- RecordedSHA1
INVARIANTS
    VerifyInv
    OKMeansIntact
PROPERTY
    Ends
CHECK_DEADLOCK FALSE
