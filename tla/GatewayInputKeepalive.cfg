\* The keepalive between its look at the routers and its send.
SPECIFICATION InputSpec
CONSTANTS
    Messages <- NoMessages
    Buttons <- OneButton
    Modifiers <- RdpModifiers
    Keys <- RdpKeys
    HttpKeys <- AltKey
    MaxInputs = 1
    MaxInputsAlone = 1
    MaxClients = 1
    MaxConnections = 1
    MaxFrames = 1
CHECK_DEADLOCK FALSE
PROPERTIES KeepaliveNeverReleases
