\* Two clients, a keepalive and two connections.
SPECIFICATION FairInputSpec
CONSTANTS
    Messages <- NoMessages
    Buttons <- OneButton
    Modifiers <- RdpModifiers
    Keys <- RdpKeys
    HttpKeys <- AltKey
    MaxInputs = 2
    MaxInputsAlone = 4
    MaxClients = 1
    MaxConnections = 2
    MaxFrames = 1
CHECK_DEADLOCK FALSE
INVARIANTS InputTypeOK NoPhantomInput IdleWhenNothingHeld
PROPERTIES ReleasedAtAgent
