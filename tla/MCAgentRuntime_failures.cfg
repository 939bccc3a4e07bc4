SPECIFICATION Spec
CONSTANTS
    a1 = a1
    a2 = a2
    a3 = a3
    NoAgent = NoAgent
    NoTools = NoTools
    NOTE = NOTE
    CONTINUE = CONTINUE
    Agents <- MCAgents2
    ToolSets = {tools1, tools2}
    MaxIterations = 1
    Replies <- RepliesShort
    SerialClients = FALSE
    Mutations = {"delete"}
    MaxFailures = 1
    MaxCrashes = 1
CONSTRAINT OneRun
INVARIANTS
    RequestsValid
PROPERTIES
    HistoryKept
    EveryRunEnds
