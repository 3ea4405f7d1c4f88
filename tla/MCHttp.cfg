SPECIFICATION HttpSpec
CONSTANTS
    Streams <- MCStreams
    maxHeaderBytes = 18
    maxBodyBytes = 5
    maxSizeLine = 6
    maxTrailer = 5
CHECK_DEADLOCK FALSE
INVARIANT HttpTypeOK
INVARIANT InStep
INVARIANT AllOrNothing
INVARIANT BodyBounded
PROPERTY Finishes
