SPECIFICATION LinkSpec
CONSTANTS
    SEQUENCE_MODULUS = 3
    MAX_WINDOW = 2
    MAX_RETRANSMITS = 2
    MAX_RESET_ATTEMPTS = 2
    HostData = 2
    NcpData = 0
    NcpWindow = 1
    MaxFaults = 1
    MaxResets = 1
    CleanReset = TRUE
    Payload <- MCPayload
PROPERTY
    HostDataArrives
CHECK_DEADLOCK FALSE
