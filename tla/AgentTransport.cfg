\* An agent that connects twice over one descriptor, a peer thread that sends once, and
\* a heartbeat whose clock may be read a tick before the lock is taken.
SPECIFICATION FairSpec
CONSTANTS
    Fds <- OneFd
    Callers <- PeerCaller
    Hellos <- KeyAckHellos
    AgentMessages <- OnlyPings
    Buffer = 1
    Timeout = 0
    MaxLag = 1
    MaxConnections = 2
    MaxCalls = 1
CHECK_DEADLOCK FALSE
INVARIANTS TypeOK KeyWaitDiesWithConnection
PROPERTIES SilentConnectionDropped ShutdownCompletes ImplementsLink
