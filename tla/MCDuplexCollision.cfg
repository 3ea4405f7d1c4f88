SPECIFICATION DuplexSpec
CONSTANTS
    LengthName <- MCLengthName
    CodingName <- MCCodingName
    Atoi <- MCAtoi
    Patterns <- MCPatterns
    ConstA <- MCConstA
    ConstB <- MCConstB
    Lanes <- MCLanes
    LaneText <- MCLaneText
    Ids = {1, 2, 3, 7}
    TemplateID <- CollidingIds
    ContentLength = "CL"
    BlankLine = "CRLF"
    Itoa <- MCItoa
    NoPat = "none"
    MaxFramePayloadBytes = 24
    MaxUint16 = 9
    WireCap = 3
    Requests <- MCRequests
    MaxRequests = 2
    OppositePats <- MCOpposite
CHECK_DEADLOCK FALSE
INVARIANT ByteExact
