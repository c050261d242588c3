SPECIFICATION BitmapSpec
CONSTANTS
    Modes <- AllModes
    Attempts <- FewAttempts
    Generations = 3
    MaxPublished = 2
    MaxClients = 2
    MaxFailures = 1
    MaxDecoded = 2
    MaxBlocked = 1
INVARIANTS
    OutputTypeOK
    OneReader
    BitmapReaderGetsLease
    SnapshotMatchesId
    DestroyedUnlessLeft
PROPERTIES
    HttpReaderReturns
    PendingFrameTaken
