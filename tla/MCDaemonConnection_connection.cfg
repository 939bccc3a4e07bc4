SPECIFICATION Spec
CONSTANTS
    hello = hello
    streamer = streamer
    other = other
    NoRequest = NoRequest
    Requests <- ThreeRequests
    Streamer = streamer
    Askings <- Asked
    Split <- OneSplit
    Eager <- NotLater
    MaxEvents = 1
    OutCapacity = 1
    Broadcast = 1
    Buffer = 1
    PendingCap = 2
INVARIANTS
    AnswersKeep
    StreamKeeps
PROPERTIES
    ImplementsCalls
    EverythingEnds
