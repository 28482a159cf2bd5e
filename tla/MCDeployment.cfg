SPECIFICATION Spec
CONSTANTS
    Calls = {c1, c2}
    Attempts = {a1, a2, a3}
    None = None
    AiTemplate = FALSE
    MaxAttemptsBeforeSessionReset = 2
    MaxRestarts = 0
    SandboxIdOf <- ManyToOne
SYMMETRY Symmetry
INVARIANTS
    TypeOK
    LeaderOwnsPromise
    ClientOfSession
    PreviewServesRequest
    SoundUntilTimeout
    FailuresForceSessions
PROPERTIES
    ResetClearsInstance
CHECK_DEADLOCK FALSE
