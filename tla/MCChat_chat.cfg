SPECIFICATION Spec
CONSTANTS
    one = one
    other = other
    Sessions = {one, other}
    Scenes <- Scenes12
    Page = 3
    Keep = 1
    MaxChats = 1
    MaxAgents = 4
CHECK_DEADLOCK FALSE

    
PROPERTIES
    ShownStays
    BusyEnds
