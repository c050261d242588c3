SPECIFICATION GatewaySpec
CONSTANTS
    Fds <- OneFd
    Callers <- PeerCaller
    Hellos <- PlainHello
    AgentMessages = {}
    Buffer = 1
    Timeout = 0
    MaxLag = 0
    MaxConnections = 2
    MaxCalls = 0
    DirectGfx = FALSE
    MaxPeers = 2
CHECK_DEADLOCK FALSE
INVARIANTS
    GatewayTypeOK
    StreamOutlivesClient
    StreamStartNeverLost
    SendsStayInEpoch
    NothingFollowsTornFrame
    DescriptorsClosedAtExit
