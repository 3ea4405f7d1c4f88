SPECIFICATION Spec
CONSTANTS
    LengthName <- MCLengthName
    CodingName <- MCCodingName
    Atoi <- MCAtoi
    Patterns <- MCPatterns
    ConstA <- MCConstA
    ConstB <- MCConstB
    Lanes <- MCLanes
    LaneText <- MCLaneText
    Ids = {1, 2, 3, 4, 5, 6, 7}
    TemplateID <- DistinctIds
    ContentLength = "CL"
    BlankLine = "CRLF"
    Itoa <- MCItoa
    NoPat = "none"
    MaxFramePayloadBytes = 24
    MaxUint16 = 9
    WireCap = 3
    Requests <- Ordinary
    MaxRequests = 1
CHECK_DEADLOCK FALSE
INVARIANT RawInHonest
