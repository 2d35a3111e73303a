SPECIFICATION StartupSpec
CONSTANTS
    JOIN_SECONDS = 15
    SENT_SECONDS = 10
    POLL_SECONDS = 5
    MAX_WINDOW = 2
    MaxIncidents = 1
INVARIANT
    JoinIsAnArrival
CHECK_DEADLOCK FALSE
