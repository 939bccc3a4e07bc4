SPECIFICATION Spec
CONSTANTS
    look = look
    seek = seek
    run = run
    serve = serve
    keep = keep
    Calls <- FiveCalls
    ToolOf <- Asks
    Replies <- Answers
    HttpErrors <- Errs
    MaxRetries = 1
    DefaultWait = 1
    MaxWait = 2
    MaxSteps = 2
    MaxFaults = 4
    FaultySteps = 1
    MaxRefusals = 1
    MaxOutput = 1
INVARIANTS
    MentorCallKeeps
    CallsKeep
PROPERTIES
    CancelStops
    ImplementsOutline
    LoopEnds
