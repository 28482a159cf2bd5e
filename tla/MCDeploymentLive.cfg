SPECIFICATION FairSpec
CONSTANTS
    Calls = {c1, c2}
    Attempts = {a1, a2}
    None = None
    AiTemplate = TRUE
    MaxAttemptsBeforeSessionReset = 3
    MaxRestarts = 1
    SandboxIdOf <- OneToOne
PROPERTIES
    EveryCallReturns
    ImplementsSharedDeployment
CHECK_DEADLOCK FALSE
