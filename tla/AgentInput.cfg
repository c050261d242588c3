\* Keys, text and both kinds of pointer input while USB is slow and the queues fill.
SPECIFICATION Spec
CONSTANTS
    Capacity = 2
    ReportKeys = 1
    Modifiers = {227}
    Usages = {4, 25}
    MouseButtons = {1}
    SideButtons = {4}
    Positions = {0, 1}
    HasPan = TRUE
    Texts <- KeyboardTexts
    MaxChunks = 2
    MaxInputs = 2
    MaxFaults = 0
INVARIANTS TypeOK NoStuckInput PointerEndpointsInOrder
PROPERTIES InputNeverLostOrReordered PasteKeepsOrder
CHECK_DEADLOCK FALSE
