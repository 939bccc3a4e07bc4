SPECIFICATION Spec
CONSTANTS
    a1 = a1
    a2 = a2
    a3 = a3
    NoAgent = NoAgent
    NoTools = NoTools
    NOTE = NOTE
    CONTINUE = CONTINUE
    Agents <- MCAgents2
    ToolSets = {tools1}
    MaxIterations = 1
    Replies <- RepliesShort
    SerialClients = FALSE
    Mutations = {}
    MaxFailures = 0
    MaxCrashes = 0
INVARIANTS
    OneAgentPerSession
