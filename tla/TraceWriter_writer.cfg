SPECIFICATION Spec
CONSTANTS
    Callers = {c1, c2}
    Closer = closer
    Ops = {"append", "run", "append_detached"}
    QueueCapacity = 2
    MaxBatch = 2
    MaxCalls = 2
    MaxFailures = 2
INVARIANTS
    LogKeepsQueue
PROPERTIES
    ImplementsLog
    CallsReturn
