SPECIFICATION DecoderSpec
CONSTANTS
    MAX_FRAME_WITH_CRC = 8
    MAX_DATA_FIELD_LEN = 3
    Items <- MCItems
    FrameCount = 2
    Noise = {126, 125, 26, 24, 17, 85}
    MaxFaults = 2
INVARIANTS
    DecoderTypeOK
    DecodesWhatWasSent
    UndamagedFramesSurvive
    NoisyFrameIsNaked
CHECK_DEADLOCK FALSE
