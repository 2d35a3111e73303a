SPECIFICATION NcpSpec
CONSTANTS
    SEQUENCE_MODULUS = 8
    MAX_WINDOW = 2
    MAX_RETRANSMITS = 3
    MAX_RESET_ATTEMPTS = 1
    SEQUENCE_SPACE = 256
    Payload <- MCPayload
    FrameIds <- MCFrameIds
    Commands = {"short"}
    NcpVersions = {"preferred"}
    MaxCommands = 3
    MaxCalls = 2
    MaxCallbacks = 1
    MaxMishaps = 1
    MaxChunk = 2
INVARIANT
    NcpResetIsReported
CHECK_DEADLOCK FALSE
