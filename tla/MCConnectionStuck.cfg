SPECIFICATION ConnSpec
CONSTANTS
    reverseFastPathBytes = 2
    Total = 3
    Starts = {0, 2}
    Unframed = {}
    MaxRequests = 1
CHECK_DEADLOCK FALSE
PROPERTY ViolationTerminates
