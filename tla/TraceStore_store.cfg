SPECIFICATION Spec
CONSTANTS
    Sessions = {s1, s2}
    Prompts = {"p"}
    Secrets = {"p"}
    Redactions = {TRUE}
    Hidden = "hidden"
    Replies = {"answer", "uses"}
    MaxRuns = 2
    MaxToolRuns = 1
    MaxSteps = 2
    MaxTitles = 1
    MaxRequests = 1
    MaxCrashes = 1
    MaxExports = 1
    MaxImports = 1
    MaxOutside = 4
CHECK_DEADLOCK FALSE
INVARIANTS
    TablesWhole
    
PROPERTIES
    UserTitleKept
