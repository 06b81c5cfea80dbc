SPECIFICATION ThjSpec
CONSTANTS
    NBuf = 2
    MaxLines = 2
    Width = 3
    BufBytes = 6
    LineBytes = 3
    OFF_DataLen = 12
    SramBytes = 16
    ByteSize = 3
    TestByte = 2
    LineData <- TwoLines
    MaxRows = 1
INVARIANTS
    ThjTypeOK
PROPERTIES
    LinesImplemented
    NeverLoadedAgain
