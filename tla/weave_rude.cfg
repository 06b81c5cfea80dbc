SPECIFICATION Spec
CONSTANTS
    NBuf = 2
    MaxLines = 1
    Width = 1
    LengthSize = 65536
    LockFile = TRUE
    InitialInis <- AnyIni
    MaxSent = 5
    Height = 3
    OpenLimit = 9
    Counts = {2}
    Colors = 1
    GuiCommands = {"Stop", "Self_Test"}
    MaxJobs = 2
    MaxCommands = 1
    Patient = FALSE
    MaxOutages = 0
INVARIANTS
    MutualExclusion
    RowsInOrder
    RingHoldsNextRows
    FetchFindsRoom
PROPERTIES
    NoOverwrite
