\* Keys, a paste and clicks while an endpoint is lost, a transfer stalls or a paste fails.
SPECIFICATION FairSpec
CONSTANTS
    Capacity = 2
    ReportKeys = 1
    Modifiers = {227}
    Usages = {25}
    MouseButtons = {1}
    SideButtons = {}
    Positions = {0}
    HasPan = FALSE
    Texts <- OnePaste
    MaxChunks = 0
    MaxInputs = 1
    MaxFaults = 1
INVARIANTS NoStuckInput LastReportIsCurrent ReleaseFindsRoom
PROPERTIES ReleaseReachesHost
CHECK_DEADLOCK FALSE
