SPECIFICATION CalmSpec
CONSTANTS
    Inputs = {i1}
    MaxPhases = 2
    Recharge = 1
    MaxClicks = 1
    MaxRestarts = 0
PROPERTIES
    QueuedRequestIsPlanned
CHECK_DEADLOCK FALSE
