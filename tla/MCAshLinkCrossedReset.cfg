SPECIFICATION LinkSpec
CONSTANTS
    SEQUENCE_MODULUS = 3
    MAX_WINDOW = 2
    MAX_RETRANSMITS = 2
    MAX_RESET_ATTEMPTS = 2
    HostData = 1
    NcpData = 2
    NcpWindow = 1
    MaxFaults = 0
    MaxResets = 1
    CleanReset = FALSE
    Payload <- MCPayload
INVARIANT
    AcknowledgedWasReceived
CHECK_DEADLOCK FALSE
