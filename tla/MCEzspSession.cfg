SPECIFICATION SessionSpec
CONSTANTS
    MAX_FRAME_LENGTH = 48
    U8_MAX = 30
    SEQUENCE_SPACE = 2
    FrameIds <- MCFrameIds
    NcpVersions = {12, 13, 14, 19}
    StackTypes = {1, 2}
    Requests <- MCRequests
    LateRequests <- MCLateRequests
    Replies <- MCReplies
    Events <- MCEvents
    MaxHappenings = 3
    MaxChunk = 2
INVARIANTS
    SessionTypeOK
    AnswersMeanWhatTheNcpSaid
    NcpReadsWhatWasMeant
    CallbacksMeanWhatTheNcpSaid
    ForeignAnswersAreWholeWrapsOld
    SlotIsFreeUnlessRefused
CHECK_DEADLOCK FALSE
