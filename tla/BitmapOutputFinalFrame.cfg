\* BitmapOutputShown.cfg without Progressive clients: TLC reports a bitmap client whose
\* last frame is dropped.
SPECIFICATION BitmapSpec
CONSTANTS
    Modes <- BitmapOnly
    Attempts <- FewAttempts
    Generations = 3
    MaxPublished = 1
    MaxClients = 1
    MaxFailures = 0
    MaxDecoded = 1
    MaxBlocked = 1
PROPERTY
    DecodedFrameShown
