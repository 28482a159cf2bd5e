SPECIFICATION TurnsSpec
CONSTANTS
    Inputs = {i1, i2}
    MaxPhases = 2
    Recharge = 1
    MaxClicks = 2
    MaxRestarts = 1
INVARIANTS
    TypeOK
    OneOpenPhase
    RequestsPlannedOnce
    PhasesBounded
    StopReachesGeneration
PROPERTIES
    LostOnlyByPlanner
    GenerationTerminates
CHECK_DEADLOCK FALSE
