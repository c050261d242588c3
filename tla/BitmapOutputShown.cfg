\* A picture that stands still, in both modes that decode frames: TLC reports a
\* Progressive client.
SPECIFICATION BitmapSpec
CONSTANTS
    Modes <- DecodedModes
    Attempts <- FewAttempts
    Generations = 3
    MaxPublished = 1
    MaxClients = 1
    MaxFailures = 0
    MaxDecoded = 1
    MaxBlocked = 1
PROPERTY
    DecodedFrameShown
