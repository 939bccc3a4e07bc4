SPECIFICATION Spec
CONSTANTS
    a1 = a1
    a2 = a2
    a3 = a3
    NoAgent = NoAgent
    NoTools = NoTools
    NOTE = NOTE
    CONTINUE = CONTINUE
    Agents <- MCAgents3
    ToolSets = {tools1}
    MaxIterations = 1
    Replies <- RepliesShort
    SerialClients = TRUE
    Mutations = {}
    MaxFailures = 1
    MaxCrashes = 1
PROPERTIES
    RepairDropsOneTurn
