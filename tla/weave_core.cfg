SPECIFICATION FairSpec
CONSTANTS
    NBuf = 3
    MaxLines = 1
    Width = 1
    LengthSize = 65536
    LockFile = TRUE
    InitialInis <- NewIni
    MaxSent = 9
    Height = 4
    OpenLimit = 9
    Counts = {2, 5}
    Colors = 1
    GuiCommands = {}
    MaxJobs = 1
    MaxCommands = 0
    Patient = TRUE
    MaxOutages = 1
INVARIANTS
    TypeOK
    RingHoldsNextRows
    PositionSaved
    MissionExact
    IniSurvives
    FirstCutResumed
    RowsConsecutive
PROPERTIES
    FifoImplemented
    MissionTerminates
    TimerStarts
