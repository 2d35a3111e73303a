SPECIFICATION LinkSpec
CONSTANTS
    SEQUENCE_MODULUS = 3
    MAX_WINDOW = 2
    MAX_RETRANSMITS = 2
    MAX_RESET_ATTEMPTS = 2
    HostData = 4
    NcpData = 4
    NcpWindow = 1
    MaxFaults = 2
    MaxResets = 2
    CleanReset = TRUE
    Payload <- MCPayload
INVARIANTS
    LinkTypeOK
    AcknowledgedWasDelivered
    AcknowledgedWasReceived
PROPERTIES
    HostToNcpIsReliable
    NcpToHostIsReliable
    NcpDataArrives
CHECK_DEADLOCK FALSE
