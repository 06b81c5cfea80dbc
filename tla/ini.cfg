SPECIFICATION IniSpec
CONSTANTS
    Keys <- IniKeys
    Values = {"1", "2", "2;", "", "..", "(null)"}
    NULL = NULL
    Hash <- SomeHash
    DICTMINSZ = 1
    MaxSize = 4
    Words = {"", "s", "t", "a"}
    HandFiles <- SomeFiles
    EditKeys <- SomeEdits
    EditValues = {"1", "2;", NULL}
    Empty = ""
    Continued = ".."
    NullText = "(null)"
    Reread <- Cut
    MaxCalls = 4
INVARIANTS
    DictTypeOK
    SlotLeft
    OneSlot
PROPERTIES
    MapImplemented
    UpdateExact
    RewriteKeepsLines
    LostForGood
    RefusedForLast
CHECK_DEADLOCK FALSE
