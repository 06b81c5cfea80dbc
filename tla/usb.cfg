SPECIFICATION UsbFairSpec
CONSTANTS
    Files <- SomeFiles
    Names <- SomeNames
    Offsets = {1}
INVARIANTS
    UsbTypeOK
    LightTellsResult
    UnmountedAfterSuccess
    NoEarlySample
PROPERTIES
    CopyVerified
    AnswersFromFile
    ChecksResume
    NoTailInBuffer
    StickFound
