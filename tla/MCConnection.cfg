SPECIFICATION ConnSpec
CONSTANTS
    reverseFastPathBytes = 2
    Total = 3
    Starts = {0}
    Unframed = {}
    MaxRequests = 1
CHECK_DEADLOCK FALSE
INVARIANT ConnTypeOK
INVARIANT FirstBytesDirect
INVARIANT InStepIsSafe
PROPERTY FirstBytesArrive
PROPERTY BothEndsRelease
