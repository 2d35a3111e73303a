SPECIFICATION Spec
CONSTANTS
    Payload = {a}
    SEQUENCE_MODULUS = 8
    MAX_WINDOW = 7
    MAX_RETRANSMITS = 3
    MAX_RESET_ATTEMPTS = 5
INVARIANTS
    TypeOK
    WindowIsConsecutive
    AckIsUnambiguous
    OnlyOldestIsResent
    NothingOutstandingBeforeConnect
    AckNamesNextExpected
PROPERTY
    QueueStaysFifo
