SPECIFICATION StartupSpec
CONSTANTS
    JOIN_SECONDS = 10
    SENT_SECONDS = 5
    POLL_SECONDS = 5
    MAX_WINDOW = 2
    MaxIncidents = 3
INVARIANTS
    StartupTypeOK
    
    CleanRunResumesTheNetwork
    DeliveredMeansDelivered
    WindowIsShutAfterTheWait
PROPERTY
    StartupEnds
CHECK_DEADLOCK FALSE
