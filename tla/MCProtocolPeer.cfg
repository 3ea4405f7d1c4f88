SPECIFICATION PeerSpec
CONSTANTS
    LengthName <- MCLengthName
    Atoi <- MCAtoi
    Patterns <- MCPatterns
    ConstA <- MCConstA
    ConstB <- MCConstB
    Lanes <- MCLanes
    LaneText <- MCLaneText
    Ids = {1}
    TemplateID <- MCTemplateID
    ContentLength = "CL"
    BlankLine = "CRLF"
    Itoa <- MCItoa
    NoPat = "none"
    MaxFramePayloadBytes = 64
    MaxUint16 = 20
    WireCap = 2
    PeerFrames <- MCPeerFrames
    MaxFrames = 5
CHECK_DEADLOCK FALSE
INVARIANT DecoderTypeOK
INVARIANT LatestDefinition
INVARIANT UnknownRefStops
PROPERTY DeliversAtCompletion
