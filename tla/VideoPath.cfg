SPECIFICATION VideoSpec
CONSTANTS
    Shapes <- SmallShapes
    Uint16 = 4
    CAPTURE_FAIL_LIMIT = 1
    CAPTURE_REINIT_LIMIT = 1
    MaxImages = 6
    MaxInFlight = 3
    MaxFaults = 1
INVARIANTS
    VideoTypeOK
    NothingWithheld
PROPERTY
    ImplementsFeed
