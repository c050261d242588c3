SPECIFICATION Spec
CONSTANTS
    FRAME_FLOW_LIMIT = 3
    FRAME_FLOW_MAX_INFLIGHT_BYTES = 2
    Uint32 = 64
    Sizes <- SmallAndLarge
    MaxUnits = 5
CHECK_DEADLOCK FALSE
INVARIANTS
    AcknowledgingClientIsServed
