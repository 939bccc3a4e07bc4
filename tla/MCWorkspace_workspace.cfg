SPECIFICATION Spec
CONSTANTS
    a = a
    b = b
    one = one
    other = other
    Paths = {a, b}
    Sessions = {one, other}
    MaxCalls = 2
    Scenes <- AllScenes
CHECK_DEADLOCK FALSE
INVARIANTS
    FilesKept
    OutcomesTell
    UnseenIsNoted
PROPERTIES
    RunsFinish
