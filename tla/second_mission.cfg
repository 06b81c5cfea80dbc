SPECIFICATION Spec
CONSTANTS
    NBuf = 2
    MaxLines = 1
    Width = 1
    LengthSize = 65536
    LockFile = TRUE
    InitialInis <- AnyIni
    MaxSent = 5
    Height = 3
    OpenLimit = 9
    Counts = {2, 4}
    Colors = 1
    GuiCommands = {}
    MaxJobs = 2
    MaxCommands = 0
    Patient = TRUE
    MaxOutages = 0
INVARIANTS
    NeverPastCount
