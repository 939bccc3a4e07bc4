CONSTANTS
    r1 = r1
    r2 = r2
    c1 = c1
    c2 = c2
    c3 = c3
    c4 = c4
    c5 = c5
    Runs <- TwoRuns
    Calls <- FiveCalls
    RunOf <- Owners
    RequestOf <- Requests
    HeadlessPolicy = "allow_readonly"
    Scenes <- ThreeScenes
    MaxRules = 2
SPECIFICATION Spec
INVARIANTS
    FirstAnswerDecides
    NoPromptOutlivesItsCall
    MutatesByConsent
PROPERTIES
    DeniedStaysDenied
    AnswerSpares
    PromptsEnd
