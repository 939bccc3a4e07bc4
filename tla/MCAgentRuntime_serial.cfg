SPECIFICATION Spec
CONSTANTS
    a1 = a1
    a2 = a2
    a3 = a3
    NoAgent = NoAgent
    NoTools = NoTools
    NOTE = NOTE
    CONTINUE = CONTINUE
    Agents <- MCAgents2
    ToolSets = {tools1}
    MaxIterations = 2
    Replies <- RepliesCore
    SerialClients = TRUE
    Mutations = {"archive", "delete"}
    MaxFailures = 0
    MaxCrashes = 1
SYMMETRY Symmetry
INVARIANTS
    TypeOK
    RowsTell
    EndsAgree
PROPERTIES
    EndsOnce
